---- MODULE Spec2Model ----
(***************************************************************************)
(* Modbus RTU master/slave engine of MODBUS-LIB/Src/Modbus.c (STM32,       *)
(* FreeRTOS).  One instance (handle) per behaviour: a slave or a master.   *)
(* The worker task is modelled at its suspension points, the interrupt     *)
(* handlers and timer callbacks as atomic actions, the kernel objects      *)
(* (task notification, binary semaphore, queue, one-shot timers) by their  *)
(* FreeRTOS contract.                                                      *)
(***************************************************************************)
EXTENDS Integers, Sequences, FiniteSets, TLC

(***************************************************************************)
(* Bounds of the model.                                                    *)
(***************************************************************************)
\* capacity of the ring buffer and of the frame buffer, scaled down
MAX_BUFFER == 16
\* frames the line delivers to a slave in one behaviour
MaxFrames == 2
\* calls of ModbusQuery in one behaviour
MaxQueries == 3
\* replies (or stray frames) the line delivers to a master in one behaviour
MaxReplies == 1
\* what a behaviour with a host task beside the worker has at most: frames
\* to a slave, calls of ModbusQuery, replies to a master, bank accesses of
\* the host task
SemFrames == 1
SemQueries == 1
SemReplies == 1
MaxHostOps == 1
\* largest configured size (in words) of a register bank
MaxBank == 2
\* SpecRing: the pushes beyond the capacity of the ring, and the drains and
\* clears
MaxOverrun == 2
MaxDrains == 2
\* SpecTrip: the words of the remote slave's holding bank
TripBank == 3

(***************************************************************************)
(* Constants of Modbus.h / ModbusConfig.h.                                 *)
(***************************************************************************)
ID == 0
FUNC == 1
ADD_HI == 2
ADD_LO == 3
NB_HI == 4
NB_LO == 5
BYTE_CNT == 6

MB_FC_READ_COILS == 1
MB_FC_READ_DISCRETE_INPUT == 2
MB_FC_READ_REGISTERS == 3
MB_FC_READ_INPUT_REGISTER == 4
MB_FC_WRITE_COIL == 5
MB_FC_WRITE_REGISTER == 6
MB_FC_WRITE_MULTIPLE_COILS == 15
MB_FC_WRITE_MULTIPLE_REGISTERS == 16

EXC_FUNC_CODE == 1
EXC_ADDR_RANGE == 2
EXC_REGS_QUANT == 3

ERR_NOT_MASTER == -1
ERR_POLLING == -2
ERR_BUFF_OVERFLOW == -3
ERR_BAD_CRC == -4
ERR_EXCEPTION == -5
ERR_BAD_SIZE == -6
ERR_TIME_OUT == -8
ERR_BAD_SLAVE_ID == -9
ERR_OK_QUERY == -10

COM_IDLE == 0
COM_WAITING == 1

MB_SLAVE == 3
MB_MASTER == 4

EXCEPTION_SIZE == 3
RESPONSE_SIZE == 6
MAX_TELEGRAMS == 2

DB_COILS == 1
DB_INPUT_COILS == 2
DB_HOLDING_REGISTER == 3
DB_INPUT_REGISTERS == 4

(***************************************************************************)
(* C integer conversions and the bit macros.                               *)
(***************************************************************************)
U8(x) == x % 256
U16(x) == x % 65536
I8(x) == IF x % 256 >= 128 THEN (x % 256) - 256 ELSE x % 256

lowByte(w) == w % 256
highByte(w) == (w \div 256) % 256

RECURSIVE Pow2(_)
Pow2(n) == IF n = 0 THEN 1 ELSE 2 * Pow2(n - 1)

bitRead(value, bit) == (value \div Pow2(bit)) % 2
bitSet(value, bit) == IF bitRead(value, bit) = 1 THEN value ELSE value + Pow2(bit)
bitClear(value, bit) == IF bitRead(value, bit) = 1 THEN value - Pow2(bit) ELSE value
bitWrite(value, bit, bitvalue) ==
    IF bitvalue # 0 THEN bitSet(value, bit) ELSE bitClear(value, bit)

\* one bit of a ^ b: p is the weight of the bit
XorBit(a, b, p) == ((((a \div p) % 2) + ((b \div p) % 2)) % 2) * p

\* a ^ b on 16 bits
BitXor(a, b) ==
    XorBit(a, b, 1) + XorBit(a, b, 2) + XorBit(a, b, 4) + XorBit(a, b, 8)
    + XorBit(a, b, 16) + XorBit(a, b, 32) + XorBit(a, b, 64) + XorBit(a, b, 128)
    + XorBit(a, b, 256) + XorBit(a, b, 512) + XorBit(a, b, 1024)
    + XorBit(a, b, 2048) + XorBit(a, b, 4096) + XorBit(a, b, 8192)
    + XorBit(a, b, 16384) + XorBit(a, b, 32768)

RECURSIVE BitOr(_, _, _)
BitOr(a, b, n) ==
    IF n = 0 THEN 0
    ELSE (IF (a % 2) + (b % 2) > 0 THEN 1 ELSE 0) + 2 * BitOr(a \div 2, b \div 2, n - 1)

RECURSIVE BitAnd(_, _, _)
BitAnd(a, b, n) ==
    IF n = 0 THEN 0
    ELSE ((a % 2) * (b % 2)) + 2 * BitAnd(a \div 2, b \div 2, n - 1)

\* word(H, L): the union bytesFields on a little-endian core
word(H, L) == H * 256 + L

fctsupported ==
    << MB_FC_READ_COILS, MB_FC_READ_DISCRETE_INPUT, MB_FC_READ_REGISTERS,
       MB_FC_READ_INPUT_REGISTER, MB_FC_WRITE_COIL, MB_FC_WRITE_REGISTER,
       MB_FC_WRITE_MULTIPLE_COILS, MB_FC_WRITE_MULTIPLE_REGISTERS >>

isSupported(fc) == \E i \in 1..Len(fctsupported) : fctsupported[i] = fc

(***************************************************************************)
(* calcCRC: CRC-16/Modbus over Buffer[0 .. u8length-1], bytes swapped on   *)
(* return.  Buffer is a function on 0 .. n-1.                              *)
(***************************************************************************)
\* one turn of the inner loop: shift right, xor 0xA001 when a one fell out
CrcShift(temp) ==
    IF temp % 2 = 1 THEN BitXor(temp \div 2, 40961) ELSE temp \div 2

\* the eight turns of the inner loop
CrcBits[temp \in Nat, j \in Nat] ==
    IF j = 0 THEN temp ELSE CrcBits[CrcShift(temp), j - 1]

\* the body of the outer loop for one byte
CrcByte[temp \in Nat, byte \in Nat] == CrcBits[BitXor(temp, byte), 8]

\* a CRC whose two bytes are left in the order of the register
calcCRCUnswapped(Buffer, u8length) ==
    LET crc[i \in 0..u8length] ==
            IF i = 0 THEN 65535 ELSE CrcByte[crc[i - 1], Buffer[i - 1]]
    IN  crc[u8length]

calcCRC(Buffer, u8length) ==
    LET crc[i \in 0..u8length] ==
            IF i = 0 THEN 65535 ELSE CrcByte[crc[i - 1], Buffer[i - 1]]
        temp == crc[u8length]
    IN  ((temp * 256) + (temp \div 256)) % 65536

\* a sequence of bytes as an array on 0 .. Len-1
ArrayOf(s) == [i \in 0..(Len(s) - 1) |-> s[i + 1]]

\* body followed by its CRC in wire order (what a correct peer transmits)
WithCRC(body) ==
    LET c == calcCRC(ArrayOf(body), Len(body))
    IN  body \o << c \div 256, c % 256 >>

\* body followed by a CRC that is wrong in its last byte
WithBadCRC(body) ==
    LET c == calcCRC(ArrayOf(body), Len(body))
    IN  body \o << c \div 256, (c + 1) % 256 >>

(***************************************************************************)
(* State.  The fields of modbusHandler_t keep their names.  Besides them:  *)
(*   mem          the arrays of the host, by name; the u16regs* fields are *)
(*                names of arrays ("NULL": no array)                       *)
(*   pc, txReturn where the worker task is, and where sendTxBuffer returns *)
(*   u8exception, telegram   locals of the worker task                     *)
(*   ulNotifiedValue, notifyWoken   the notification of the worker task    *)
(*   wire, txLine, txBusy    bytes the line has still to deliver, the last *)
(*                frame transmitted, a transmission in progress            *)
(*   origNotify   the values each originator task has been notified with   *)
(*   hostPc       where the host task is                                   *)
(*   oob          an access outside the bound array has happened           *)
(*   reqFrame     the frame the worker drained last                        *)
(*   env          what the environment may still do (frames, queries,      *)
(*                replies, hostops), the originators whose telegram was    *)
(*                dequeued (deq), and the bytes received since the last    *)
(*                transmission ended (heard); in SpecRing, the history of   *)
(*                the calls of the ring functions: the bytes pushed, the   *)
(*                drains left, the call made last with its argument and    *)
(*                its return value                                         *)
(***************************************************************************)
VARIABLES
    uModbusType, u8id,
    u8Buffer, u8BufferSize,
    i8lastError, i8state,
    u16InCnt, u16OutCnt, u16errCnt,
    xBufferRX,
    ModBusSphr,
    mem, u16regsHR, u16regsRO, u16regsCoils, u16regsCoilsRO,
    u16regHR_size, u16regCoils_size,
    pc, u8exception, txReturn, telegram,
    ulNotifiedValue, notifyWoken,
    xTimerT35, xTimerTimeout,
    QueueTelegram,
    wire, txLine, txBusy, EN_Pin,
    origNotify, hostPc, oob, reqFrame, env

vars == << uModbusType, u8id, u8Buffer, u8BufferSize, i8lastError, i8state,
           u16InCnt, u16OutCnt, u16errCnt, xBufferRX, ModBusSphr,
           mem, u16regsHR, u16regsRO, u16regsCoils, u16regsCoilsRO,
           u16regHR_size, u16regCoils_size,
           pc, u8exception, txReturn, telegram,
           ulNotifiedValue, notifyWoken, xTimerT35, xTimerTimeout,
           QueueTelegram, wire, txLine, txBusy, EN_Pin,
           origNotify, hostPc, oob, reqFrame, env >>

(***************************************************************************)
(* Ring buffer (modbusRingBuffer_t).                                       *)
(***************************************************************************)
RingClear(xRingBuffer) ==
    [xRingBuffer EXCEPT !.u8start = 0, !.u8end = 0, !.u8available = 0,
                        !.overflow = FALSE]

\* a push that, on a full ring, overwrites without advancing u8start
RingAddKeepsStart(xRingBuffer, u8Val) ==
    LET stored == [xRingBuffer EXCEPT
                     !.uxBuffer[xRingBuffer.u8end] = u8Val,
                     !.u8end = (xRingBuffer.u8end + 1) % MAX_BUFFER]
    IN  IF xRingBuffer.u8available = MAX_BUFFER
        THEN [stored EXCEPT !.overflow = TRUE]
        ELSE [stored EXCEPT !.overflow = FALSE,
                            !.u8available = xRingBuffer.u8available + 1]

RingAdd(xRingBuffer, u8Val) ==
    LET stored == [xRingBuffer EXCEPT
                     !.uxBuffer[xRingBuffer.u8end] = u8Val,
                     !.u8end = (xRingBuffer.u8end + 1) % MAX_BUFFER]
    IN  IF xRingBuffer.u8available = MAX_BUFFER
        THEN [stored EXCEPT !.overflow = TRUE,
                            !.u8start = (xRingBuffer.u8start + 1) % MAX_BUFFER]
        ELSE [stored EXCEPT !.overflow = FALSE,
                            !.u8available = xRingBuffer.u8available + 1]

RingCountBytes(xRingBuffer) == xRingBuffer.u8available

\* the copy loop of RingGetNBytes: [buffer, start, uCounter] after it
RECURSIVE RingCopy(_, _, _, _, _)
RingCopy(xRingBuffer, buffer, start, uCounter, uNumber) ==
    IF uCounter < uNumber /\ uCounter < xRingBuffer.u8available
    THEN RingCopy(xRingBuffer,
                  [buffer EXCEPT ![uCounter] = xRingBuffer.uxBuffer[start]],
                  (start + 1) % MAX_BUFFER, uCounter + 1, uNumber)
    ELSE [buffer |-> buffer, start |-> start, uCounter |-> uCounter]

\* [ret, buffer, rb]: the value returned, the caller's buffer and the ring
RingGetNBytes(xRingBuffer, buffer, uNumber) ==
    IF xRingBuffer.u8available = 0 \/ uNumber = 0
    THEN [ret |-> 0, buffer |-> buffer, rb |-> xRingBuffer]
    ELSE IF uNumber > MAX_BUFFER
    THEN [ret |-> 0, buffer |-> buffer, rb |-> xRingBuffer]
    ELSE LET c == RingCopy(xRingBuffer, buffer, xRingBuffer.u8start, 0, uNumber)
         IN  [ret |-> c.uCounter, buffer |-> c.buffer,
              rb |-> RingClear([xRingBuffer EXCEPT
                         !.u8start = c.start,
                         !.u8available = xRingBuffer.u8available - c.uCounter,
                         !.overflow = FALSE])]

RingGetAllBytes(xRingBuffer, buffer) ==
    RingGetNBytes(xRingBuffer, buffer, xRingBuffer.u8available)

EmptyArray == [i \in 0..(MAX_BUFFER - 1) |-> 0]

EmptyRing == [uxBuffer |-> EmptyArray, u8start |-> 0, u8end |-> 0,
              u8available |-> 0, overflow |-> FALSE]

\* the ring after the receive interrupt has stored the bytes of s in order
RECURSIVE RingAddAll(_, _)
RingAddAll(xRingBuffer, s) ==
    IF s = << >> THEN xRingBuffer
    ELSE RingAddAll(RingAdd(xRingBuffer, Head(s)), Tail(s))

(***************************************************************************)
(* Frame buffer helpers.                                                   *)
(***************************************************************************)
\* a store into u8Buffer; a store past the array is not modelled as a change
BufSet(buf, i, v) == IF i \in DOMAIN buf THEN [buf EXCEPT ![i] = v] ELSE buf

\* u8Buffer[0 .. n-1] as a sequence
RECURSIVE BufSeq(_, _)
BufSeq(buf, n) ==
    IF n = 0 THEN << >> ELSE Append(BufSeq(buf, n - 1), buf[n - 1])

(***************************************************************************)
(* getRxBuffer: [result, buf, size, rb, inCnt].                            *)
(***************************************************************************)
getRxBuffer ==
    IF xBufferRX.overflow
    THEN [result |-> ERR_BUFF_OVERFLOW, buf |-> u8Buffer, size |-> u8BufferSize,
          rb |-> RingClear(xBufferRX), inCnt |-> u16InCnt]
    ELSE LET g == RingGetAllBytes(xBufferRX, u8Buffer)
         IN  [result |-> g.ret, buf |-> g.buffer, size |-> g.ret,
              rb |-> g.rb, inCnt |-> U16(u16InCnt + 1)]

(***************************************************************************)
(* validateRequest on (buf, size): [ret, errCnt]; ret is the uint8_t the   *)
(* function returns.                                                       *)
(***************************************************************************)
MsgCRC(buf, size) == buf[size - 2] * 256 + buf[size - 1]

\* the range checks, on a frame and the sizes of the holding and coil banks
RangeCheckOn(buf, u16regHR_sz, u16regCoils_sz) ==
    LET add == word(buf[ADD_HI], buf[ADD_LO])
        nb  == word(buf[NB_HI], buf[NB_LO])
        fc  == buf[FUNC]
    IN  IF fc \in {MB_FC_READ_COILS, MB_FC_READ_DISCRETE_INPUT,
                   MB_FC_WRITE_MULTIPLE_COILS}
        THEN LET u16AdRegs == add \div 16
                 u16NRegs  == (nb \div 16) + (IF nb % 16 # 0 THEN 1 ELSE 0)
                 bytes     == U16((nb \div 8) + (IF nb % 8 # 0 THEN 1 ELSE 0) + 5)
             IN  IF u16AdRegs + u16NRegs > u16regCoils_sz THEN EXC_ADDR_RANGE
                 ELSE IF bytes > 256 THEN EXC_REGS_QUANT
                 ELSE 0
        ELSE IF fc = MB_FC_WRITE_COIL
        THEN LET u16AdRegs == (add \div 16) + (IF add % 16 # 0 THEN 1 ELSE 0)
             IN  IF u16AdRegs > u16regCoils_sz THEN EXC_ADDR_RANGE ELSE 0
        ELSE IF fc = MB_FC_WRITE_REGISTER
        THEN IF add > u16regHR_sz THEN EXC_ADDR_RANGE ELSE 0
        ELSE IF fc \in {MB_FC_READ_REGISTERS, MB_FC_READ_INPUT_REGISTER,
                        MB_FC_WRITE_MULTIPLE_REGISTERS}
        THEN IF add + nb > u16regHR_sz THEN EXC_ADDR_RANGE
             ELSE IF U16(nb * 2 + 5) > 256 THEN EXC_REGS_QUANT
             ELSE 0
        ELSE 0

RangeCheck(buf) == RangeCheckOn(buf, u16regHR_size, u16regCoils_size)

validateRequest(buf, size) ==
    IF calcCRC(buf, size - 2) # MsgCRC(buf, size)
    THEN [ret |-> U8(ERR_BAD_CRC), errCnt |-> U16(u16errCnt + 1)]
    ELSE IF ~isSupported(buf[FUNC])
    THEN [ret |-> EXC_FUNC_CODE, errCnt |-> U16(u16errCnt + 1)]
    ELSE [ret |-> RangeCheck(buf), errCnt |-> u16errCnt]

(***************************************************************************)
(* buildException: [buf, size].                                            *)
(***************************************************************************)
buildException(exc, buf) ==
    LET u8func == buf[FUNC]
    IN  [buf |-> [buf EXCEPT ![ID] = u8id, ![FUNC] = U8(u8func + 128),
                             ![2] = exc],
         size |-> EXCEPTION_SIZE]

(***************************************************************************)
(* Register banks.  mem maps a pointer (the name of an array the host      *)
(* owns) to the array; the handle's u16regs* fields hold pointers.  An     *)
(* access past the end of an array is recorded in the oob flag; such a     *)
(* read yields the value g the caller supplies, such a write is not        *)
(* modelled as a change of the arrays.                                     *)
(***************************************************************************)
InBank(m, p, i) == p \in DOMAIN m /\ i \in DOMAIN m[p]
MemRead(m, p, i, g) == IF InBank(m, p, i) THEN m[p][i] ELSE g
MemWrite(m, p, i, v) == IF InBank(m, p, i) THEN [m EXCEPT ![p][i] = v] ELSE m

\* process_FC1, the loop over the coils: [buf, size, bitsno, oob]
RECURSIVE FC1Loop(_, _, _, _, _, _, _, _, _)
FC1Loop(buf, size, bitsno, bad, u16regs, u16StartCoil, u16currentCoil, u16Coilno, g) ==
    IF u16currentCoil >= u16Coilno
    THEN [buf |-> buf, size |-> size, oob |-> bad]
    ELSE LET u16coil == U16(u16StartCoil + u16currentCoil)
             u16currentRegister == u16coil \div 16
             u8currentBit == u16coil % 16
             cur == IF size \in DOMAIN buf THEN buf[size] ELSE 0
             nbuf == BufSet(buf, size,
                        bitWrite(cur, bitsno,
                            bitRead(MemRead(mem, u16regs, u16currentRegister, g),
                                    u8currentBit)))
             nbad == bad \/ ~InBank(mem, u16regs, u16currentRegister)
         IN  IF bitsno + 1 > 7
             THEN FC1Loop(nbuf, U8(size + 1), 0, nbad, u16regs, u16StartCoil,
                          U16(u16currentCoil + 1), u16Coilno, g)
             ELSE FC1Loop(nbuf, size, bitsno + 1, nbad, u16regs, u16StartCoil,
                          U16(u16currentCoil + 1), u16Coilno, g)

\* process_FC1 up to its call of sendTxBuffer.  uninit is the value of the
\* local pointer u16regs where the function leaves it unassigned.
process_FC1(Database, uninit, g) ==
    LET u16StartCoil == word(u8Buffer[ADD_HI], u8Buffer[ADD_LO])
        u16Coilno == word(u8Buffer[NB_HI], u8Buffer[NB_LO])
        u8bytesno == U8(U8(u16Coilno \div 8) + (IF u16Coilno % 8 # 0 THEN 1 ELSE 0))
        b1 == [u8Buffer EXCEPT ![ADD_HI] = u8bytesno]
        b2 == BufSet(b1, ADD_LO + u8bytesno - 1, 0)
        u16regs == IF Database = 1 THEN u16regsCoils ELSE uninit
        l == FC1Loop(b2, ADD_LO, 0, FALSE, u16regs, u16StartCoil, 0, u16Coilno, g)
    IN  [buf |-> l.buf,
         size |-> IF u16Coilno % 8 # 0 THEN U8(l.size + 1) ELSE l.size,
         mem |-> mem, oob |-> l.oob]

\* process_FC3, the loop over the registers of the arrays m
RECURSIVE FC3Loop(_, _, _, _, _, _, _, _)
FC3Loop(m, buf, size, bad, u16regs, i, last, g) ==
    IF i >= last
    THEN [buf |-> buf, size |-> size, oob |-> bad]
    ELSE LET w == MemRead(m, u16regs, i, g)
             b1 == BufSet(buf, size, highByte(w))
             b2 == BufSet(b1, U8(size + 1), lowByte(w))
         IN  FC3Loop(m, b2, U8(size + 2), bad \/ ~InBank(m, u16regs, i),
                     u16regs, i + 1, last, g)

\* the response process_FC3 builds in the frame buffer buf from the array
\* u16regs of m: [buf, size, oob]
FC3Frame(buf, m, u16regs, g) ==
    LET u16StartAdd == word(buf[ADD_HI], buf[ADD_LO])
        u8regsno == U8(word(buf[NB_HI], buf[NB_LO]))
        b1 == [buf EXCEPT ![2] = U8(u8regsno * 2)]
    IN  FC3Loop(m, b1, 3, FALSE, u16regs, u16StartAdd, u16StartAdd + u8regsno, g)

process_FC3(Database, uninit, g) ==
    LET u16regs == IF Database = DB_HOLDING_REGISTER THEN u16regsHR
                   ELSE IF Database = DB_INPUT_REGISTERS THEN u16regsRO
                   ELSE uninit
        l == FC3Frame(u8Buffer, mem, u16regs, g)
    IN  [buf |-> l.buf, size |-> l.size, mem |-> mem, oob |-> l.oob]

process_FC5(g) ==
    LET u16coil == word(u8Buffer[ADD_HI], u8Buffer[ADD_LO])
        u16currentRegister == u16coil \div 16
        u8currentBit == u16coil % 16
        old == MemRead(mem, u16regsCoils, u16currentRegister, g)
        new == bitWrite(old, u8currentBit,
                        IF u8Buffer[NB_HI] = 255 THEN 1 ELSE 0)
    IN  [buf |-> u8Buffer, size |-> 6,
         mem |-> MemWrite(mem, u16regsCoils, u16currentRegister, new),
         oob |-> ~InBank(mem, u16regsCoils, u16currentRegister)]

process_FC6 ==
    LET u16add == word(u8Buffer[ADD_HI], u8Buffer[ADD_LO])
        u16val == word(u8Buffer[NB_HI], u8Buffer[NB_LO])
    IN  [buf |-> u8Buffer, size |-> RESPONSE_SIZE,
         mem |-> MemWrite(mem, u16regsHR, u16add, u16val),
         oob |-> ~InBank(mem, u16regsHR, u16add)]

\* process_FC15, the loop over the coils, on the frame buffer buf and the
\* array u16regs of the arrays m: [mem, oob]
RECURSIVE FC15Loop(_, _, _, _, _, _, _, _, _, _)
FC15Loop(buf, u16regs, m, bad, bitsno, u8frameByte, u16StartCoil, u16currentCoil, u16Coilno, g) ==
    IF u16currentCoil >= u16Coilno
    THEN [mem |-> m, oob |-> bad]
    ELSE LET u16coil == U16(u16StartCoil + u16currentCoil)
             u16currentRegister == u16coil \div 16
             u8currentBit == u16coil % 16
             src == IF u8frameByte \in DOMAIN buf THEN buf[u8frameByte] ELSE g % 256
             bTemp == bitRead(src, bitsno)
             old == MemRead(m, u16regs, u16currentRegister, g)
             nm == MemWrite(m, u16regs, u16currentRegister,
                            bitWrite(old, u8currentBit, bTemp))
             nbad == bad \/ ~InBank(m, u16regs, u16currentRegister)
         IN  IF bitsno + 1 > 7
             THEN FC15Loop(buf, u16regs, nm, nbad, 0, U8(u8frameByte + 1),
                           u16StartCoil, U16(u16currentCoil + 1), u16Coilno, g)
             ELSE FC15Loop(buf, u16regs, nm, nbad, bitsno + 1, u8frameByte,
                           u16StartCoil, U16(u16currentCoil + 1), u16Coilno, g)

\* process_FC15 on the frame buffer buf and the array u16regs of m
FC15Write(buf, m, u16regs, g) ==
    FC15Loop(buf, u16regs, m, FALSE, 0, 7, word(buf[ADD_HI], buf[ADD_LO]), 0,
             word(buf[NB_HI], buf[NB_LO]), g)

process_FC15(g) ==
    LET l == FC15Write(u8Buffer, mem, u16regsCoils, g)
    IN  [buf |-> u8Buffer, size |-> 6, mem |-> l.mem, oob |-> l.oob]

RECURSIVE FC16Loop(_, _, _, _, _, _, _)
FC16Loop(m, bad, buf, u16StartAdd, i, u16regsno, g) ==
    IF i >= u16regsno
    THEN [mem |-> m, oob |-> bad]
    ELSE LET hi == IF (BYTE_CNT + 1) + i * 2 \in DOMAIN buf
                   THEN buf[(BYTE_CNT + 1) + i * 2] ELSE g % 256
             lo == IF (BYTE_CNT + 2) + i * 2 \in DOMAIN buf
                   THEN buf[(BYTE_CNT + 2) + i * 2] ELSE g % 256
         IN  FC16Loop(MemWrite(m, u16regsHR, u16StartAdd + i, word(hi, lo)),
                      bad \/ ~InBank(m, u16regsHR, u16StartAdd + i),
                      buf, u16StartAdd, i + 1, u16regsno, g)

process_FC16(g) ==
    LET u16StartAdd == word(u8Buffer[ADD_HI], u8Buffer[ADD_LO])
        u16regsno == word(u8Buffer[NB_HI], u8Buffer[NB_LO])
        b == [u8Buffer EXCEPT ![NB_HI] = 0, ![NB_LO] = U8(u16regsno)]
        l == FC16Loop(mem, FALSE, b, u16StartAdd, 0, u16regsno, g)
    IN  [buf |-> b, size |-> RESPONSE_SIZE, mem |-> l.mem, oob |-> l.oob]

\* the switch of StartTaskModbusSlave
Dispatch(uninit, g) ==
    LET fc == u8Buffer[FUNC]
    IN  IF fc = MB_FC_READ_COILS THEN process_FC1(DB_COILS, uninit, g)
        ELSE IF fc = MB_FC_READ_DISCRETE_INPUT THEN process_FC1(DB_INPUT_COILS, uninit, g)
        ELSE IF fc = MB_FC_READ_REGISTERS THEN process_FC3(DB_HOLDING_REGISTER, uninit, g)
        ELSE IF fc = MB_FC_READ_INPUT_REGISTER THEN process_FC3(DB_INPUT_REGISTERS, uninit, g)
        ELSE IF fc = MB_FC_WRITE_COIL THEN process_FC5(g)
        ELSE IF fc = MB_FC_WRITE_REGISTER THEN process_FC6
        ELSE IF fc = MB_FC_WRITE_MULTIPLE_COILS THEN process_FC15(g)
        ELSE process_FC16(g)

(***************************************************************************)
(* Kernel objects.                                                         *)
(***************************************************************************)
\* the places where the worker is inside ulTaskNotifyTake
NotifyWaitPcs == {"wait", "txwait"}

\* xTaskNotify(worker, value, eSetValueWithOverwrite) when overwrite, and
\* eNoAction otherwise.  A task blocked in ulTaskNotifyTake is made ready; a
\* task that is not blocked there only has its value written.
NotifyWorker(value, overwrite) ==
    /\ ulNotifiedValue' = IF overwrite THEN value ELSE ulNotifiedValue
    /\ notifyWoken' = (notifyWoken \/ (pc \in NotifyWaitPcs /\ ulNotifiedValue = 0))

hwVars == << uModbusType, u8id, u16regHR_size, u16regCoils_size >>
bankVars == << mem, u16regsHR, u16regsRO, u16regsCoils, u16regsCoilsRO, oob >>
frameVars == << u8Buffer, u8BufferSize >>
countVars == << u16InCnt, u16OutCnt, u16errCnt >>
notifyVars == << ulNotifiedValue, notifyWoken >>
timerVars == << xTimerT35, xTimerTimeout >>
lineVars == << wire, txLine, txBusy, EN_Pin >>
masterVars == << telegram, QueueTelegram, origNotify >>

(***************************************************************************)
(* Interrupt handlers and timer callbacks.                                 *)
(***************************************************************************)
\* UART receive interrupt, one byte: RingAdd, restart of T3.5
RxISR ==
    /\ wire # << >>
    /\ EN_Pin = "RX"
    /\ xBufferRX' = RingAdd(xBufferRX, Head(wire))
    /\ wire' = Tail(wire)
    /\ xTimerT35' = TRUE
    /\ env' = [env EXCEPT !.heard = @ + 1]
    /\ UNCHANGED << hwVars, bankVars, frameVars, countVars, notifyVars,
                    masterVars, xTimerTimeout, txLine, txBusy, EN_Pin,
                    i8lastError, i8state, ModBusSphr, pc, u8exception,
                    txReturn, hostPc, reqFrame >>

\* UART transmit-complete interrupt: the TC bit is set, the worker notified
TxCpltISR ==
    /\ txBusy
    /\ txBusy' = FALSE
    /\ NotifyWorker(0, FALSE)
    /\ UNCHANGED << hwVars, bankVars, frameVars, countVars, timerVars,
                    masterVars, wire, txLine, EN_Pin, xBufferRX,
                    i8lastError, i8state, ModBusSphr, pc, u8exception,
                    txReturn, hostPc, reqFrame, env >>

\* T3.5 expires: the line has been silent since the last byte
vTimerCallbackT35 ==
    /\ xTimerT35
    /\ wire = << >>
    /\ xTimerT35' = FALSE
    /\ xTimerTimeout' = IF uModbusType = MB_MASTER THEN FALSE ELSE xTimerTimeout
    /\ NotifyWorker(0, TRUE)
    /\ UNCHANGED << hwVars, bankVars, frameVars, countVars, lineVars,
                    masterVars, xBufferRX,
                    i8lastError, i8state, ModBusSphr, pc, u8exception,
                    txReturn, hostPc, reqFrame, env >>

\* the response timeout expires
vTimerCallbackTimeout ==
    /\ xTimerTimeout
    /\ xTimerTimeout' = FALSE
    /\ NotifyWorker(ERR_TIME_OUT, TRUE)
    /\ UNCHANGED << hwVars, bankVars, frameVars, countVars, lineVars,
                    masterVars, xBufferRX, xTimerT35,
                    i8lastError, i8state, ModBusSphr, pc, u8exception,
                    txReturn, hostPc, reqFrame, env >>

(***************************************************************************)
(* sendTxBuffer, in three steps: up to the switch of the transceiver to   *)
(* transmission, the start of the transmission, and from the wait for its  *)
(* completion to the return.                                               *)
(***************************************************************************)
sendTxBufferStart ==
    /\ pc = "tx"
    /\ LET u16crc == calcCRC(u8Buffer, u8BufferSize)
           b1 == BufSet(u8Buffer, u8BufferSize, u16crc \div 256)
           b2 == BufSet(b1, U8(u8BufferSize + 1), u16crc % 256)
       IN  /\ u8Buffer' = b2
           /\ u8BufferSize' = U8(u8BufferSize + 2)
    /\ EN_Pin' = "TX"
    /\ pc' = "txgo"
    /\ UNCHANGED << hwVars, bankVars, countVars, notifyVars, timerVars,
                    masterVars, wire, txLine, txBusy, xBufferRX,
                    i8lastError, i8state, ModBusSphr, u8exception,
                    txReturn, hostPc, reqFrame, env >>

\* HAL_UART_Transmit_IT: the frame goes to the UART, which clears its TC bit
\* (txBusy) until the last byte has left the shift register
sendTxBufferTransmit ==
    /\ pc = "txgo"
    /\ txLine' = BufSeq(u8Buffer, u8BufferSize)
    /\ txBusy' = TRUE
    /\ pc' = "txwait"
    /\ UNCHANGED << hwVars, bankVars, frameVars, countVars, notifyVars,
                    timerVars, masterVars, wire, EN_Pin, xBufferRX,
                    i8lastError, i8state, ModBusSphr, u8exception,
                    txReturn, hostPc, reqFrame, env >>

\* a return from sendTxBuffer that does not wait for the TC bit
sendTxBufferEndNoWait ==
    /\ pc = "txwait"
    /\ ulNotifiedValue' = 0
    /\ notifyWoken' = FALSE
    /\ EN_Pin' = "RX"
    /\ xTimerTimeout' = IF uModbusType = MB_MASTER THEN TRUE ELSE xTimerTimeout
    /\ u8BufferSize' = 0
    /\ u16OutCnt' = U16(u16OutCnt + 1)
    /\ pc' = txReturn
    /\ env' = [env EXCEPT !.heard = 0]
    /\ UNCHANGED << hwVars, bankVars, u8Buffer, u16InCnt, u16errCnt,
                    masterVars, wire, txLine, txBusy, xBufferRX, xTimerT35,
                    i8lastError, i8state, ModBusSphr, u8exception,
                    txReturn, hostPc, reqFrame >>

sendTxBufferEnd ==
    /\ pc = "txwait"
    /\ ~txBusy
    /\ ulNotifiedValue' = 0
    /\ notifyWoken' = FALSE
    /\ EN_Pin' = "RX"
    /\ xTimerTimeout' = IF uModbusType = MB_MASTER THEN TRUE ELSE xTimerTimeout
    /\ u8BufferSize' = 0
    /\ u16OutCnt' = U16(u16OutCnt + 1)
    /\ pc' = txReturn
    /\ env' = [env EXCEPT !.heard = 0]
    /\ UNCHANGED << hwVars, bankVars, u8Buffer, u16InCnt, u16errCnt,
                    masterVars, wire, txLine, txBusy, xBufferRX, xTimerT35,
                    i8lastError, i8state, ModBusSphr, u8exception,
                    txReturn, hostPc, reqFrame >>

(***************************************************************************)
(* StartTaskModbusSlave.                                                   *)
(***************************************************************************)
\* the head of the loop: i8lastError = 0, then the wait for a frame
SlaveTop ==
    /\ uModbusType = MB_SLAVE
    /\ pc = "top"
    /\ i8lastError' = 0
    /\ u8exception' = 0
    /\ pc' = "wait"
    /\ UNCHANGED << hwVars, bankVars, frameVars, countVars, notifyVars,
                    timerVars, lineVars, masterVars, xBufferRX,
                    i8state, ModBusSphr, txReturn, hostPc, reqFrame, env >>

\* a slave loop without the test of the slave id
SlaveFrameAnyId(rx) ==
    IF rx.result = ERR_BUFF_OVERFLOW
    THEN [err |-> ERR_BUFF_OVERFLOW, errCnt |-> U16(u16errCnt + 1), exc |-> 0,
          buf |-> rx.buf, size |-> rx.size, pc |-> "top"]
    ELSE IF rx.size < 7
    THEN [err |-> ERR_BAD_SIZE, errCnt |-> U16(u16errCnt + 1), exc |-> 0,
          buf |-> rx.buf, size |-> rx.size, pc |-> "top"]
    ELSE LET v == validateRequest(rx.buf, rx.size)
         IN  IF v.ret > 0
             THEN LET e == buildException(v.ret, rx.buf)
                  IN  [err |-> i8lastError, errCnt |-> v.errCnt,
                       exc |-> v.ret, buf |-> e.buf, size |-> e.size,
                       pc |-> "tx"]
             ELSE [err |-> 0, errCnt |-> v.errCnt, exc |-> 0,
                   buf |-> rx.buf, size |-> rx.size, pc |-> "takeSem"]

\* what the steps of the loop from the wake-up to the next suspension point
\* or continue assign: [err, errCnt, exc, buf, size, pc]
SlaveFrame(rx) ==
    IF rx.result = ERR_BUFF_OVERFLOW
    THEN [err |-> ERR_BUFF_OVERFLOW, errCnt |-> U16(u16errCnt + 1), exc |-> 0,
          buf |-> rx.buf, size |-> rx.size, pc |-> "top"]
    ELSE IF rx.size < 7
    THEN [err |-> ERR_BAD_SIZE, errCnt |-> U16(u16errCnt + 1), exc |-> 0,
          buf |-> rx.buf, size |-> rx.size, pc |-> "top"]
    ELSE IF rx.buf[ID] # u8id
    THEN [err |-> i8lastError, errCnt |-> u16errCnt, exc |-> 0,
          buf |-> rx.buf, size |-> rx.size, pc |-> "top"]
    ELSE LET v == validateRequest(rx.buf, rx.size)
         IN  IF v.ret > 0
             THEN IF v.ret # ERR_TIME_OUT
                  THEN LET e == buildException(v.ret, rx.buf)
                       IN  [err |-> i8lastError, errCnt |-> v.errCnt,
                            exc |-> v.ret, buf |-> e.buf, size |-> e.size,
                            pc |-> "tx"]
                  ELSE [err |-> I8(v.ret), errCnt |-> v.errCnt, exc |-> v.ret,
                        buf |-> rx.buf, size |-> rx.size, pc |-> "top"]
             ELSE [err |-> 0, errCnt |-> v.errCnt, exc |-> 0,
                   buf |-> rx.buf, size |-> rx.size, pc |-> "takeSem"]

SlaveWake ==
    /\ uModbusType = MB_SLAVE
    /\ pc = "wait"
    /\ ulNotifiedValue # 0 \/ notifyWoken
    /\ ulNotifiedValue' = 0
    /\ notifyWoken' = FALSE
    /\ LET rx == getRxBuffer
           r  == SlaveFrame(rx)
       IN  /\ xBufferRX' = rx.rb
           /\ u16InCnt' = rx.inCnt
           /\ u8Buffer' = r.buf
           /\ u8BufferSize' = r.size
           /\ i8lastError' = r.err
           /\ u16errCnt' = r.errCnt
           /\ u8exception' = r.exc
           /\ pc' = r.pc
           /\ txReturn' = IF r.pc = "tx" THEN "excDone" ELSE txReturn
           /\ reqFrame' = IF rx.result = ERR_BUFF_OVERFLOW THEN << >>
                           ELSE BufSeq(rx.buf, rx.size)
    /\ UNCHANGED << hwVars, bankVars, u16OutCnt, timerVars, lineVars,
                    masterVars, i8state, ModBusSphr, hostPc, env >>

\* after the exception frame is sent: i8lastError = u8exception; continue
SlaveExcDone ==
    /\ uModbusType = MB_SLAVE
    /\ pc = "excDone"
    /\ i8lastError' = I8(u8exception)
    /\ pc' = "top"
    /\ UNCHANGED << hwVars, bankVars, frameVars, countVars, notifyVars,
                    timerVars, lineVars, masterVars, xBufferRX,
                    i8state, ModBusSphr, u8exception, txReturn, hostPc, reqFrame, env >>

\* a slave that goes on to its handler without the semaphore
SlaveSkipsSem ==
    /\ uModbusType = MB_SLAVE
    /\ pc = "takeSem"
    /\ pc' = "process"
    /\ UNCHANGED << hwVars, bankVars, frameVars, countVars, notifyVars,
                    timerVars, lineVars, masterVars, xBufferRX, ModBusSphr,
                    i8lastError, i8state, u8exception, txReturn, hostPc, reqFrame, env >>

SlaveTakeSem ==
    /\ uModbusType = MB_SLAVE
    /\ pc = "takeSem"
    /\ ModBusSphr = "free"
    /\ ModBusSphr' = "worker"
    /\ pc' = "process"
    /\ UNCHANGED << hwVars, bankVars, frameVars, countVars, notifyVars,
                    timerVars, lineVars, masterVars, xBufferRX,
                    i8lastError, i8state, u8exception, txReturn, hostPc, reqFrame, env >>

\* values a read outside every array can yield
Garbage == {0, 65535}

\* the handler up to its call of sendTxBuffer
SlaveProcess ==
    /\ uModbusType = MB_SLAVE
    /\ pc = "process"
    /\ \E uninit \in DOMAIN mem, g \in Garbage :
         LET h == Dispatch(uninit, g)
         IN  /\ u8Buffer' = h.buf
             /\ u8BufferSize' = h.size
             /\ mem' = h.mem
             /\ oob' = (oob \/ h.oob)
    /\ pc' = "tx"
    /\ txReturn' = "giveSem"
    /\ UNCHANGED << hwVars, u16regsHR, u16regsRO, u16regsCoils, u16regsCoilsRO,
                    countVars, notifyVars, timerVars, lineVars, masterVars,
                    xBufferRX, i8lastError, i8state, ModBusSphr, u8exception,
                    hostPc, reqFrame, env >>

\* the handler's return value is stored in i8state, the semaphore released
SlaveGiveSem ==
    /\ uModbusType = MB_SLAVE
    /\ pc = "giveSem"
    /\ i8state' = I8(U8(Len(txLine)))
    /\ ModBusSphr' = "free"
    /\ pc' = "top"
    /\ UNCHANGED << hwVars, bankVars, frameVars, countVars, notifyVars,
                    timerVars, lineVars, masterVars, xBufferRX,
                    i8lastError, u8exception, txReturn, hostPc, reqFrame, env >>

(***************************************************************************)
(* Configurations and inputs.                                              *)
(***************************************************************************)
SlaveId == 17
OtherId == 18

\* the contents the host gives its banks
BankWords == << 10, 258, 65535, 4660 >>
CoilWords == << 165, 3855, 61680, 255 >>

Bank(words, n) == [i \in 0..(n - 1) |-> words[(i % Len(words)) + 1]]

\* the banks of a slave whose holding bank has hr words and whose coil bank
\* has co words; the input banks have one word each
SlaveMem(hr, co) ==
    [p \in {"hr", "ro", "coils", "di"} |->
        IF p = "hr" THEN Bank(BankWords, hr)
        ELSE IF p = "coils" THEN Bank(CoilWords, co)
        ELSE IF p = "ro" THEN Bank(<< 4369 >>, 1)
        ELSE Bank(<< 23130 >>, 1)]

Supported == {fctsupported[i] : i \in 1..Len(fctsupported)}

\* request bodies (without CRC): header, and for FC 15/16 the byte count and
\* as many data bytes as the frame buffer has room for
ReqData(fc, nb) ==
    IF fc = MB_FC_WRITE_MULTIPLE_REGISTERS
    THEN IF nb = 1 THEN << 2, 18, 52 >>
         ELSE IF nb = 2 THEN << 4, 18, 52, 86, 120 >>
         ELSE << U8(2 * nb) >>
    ELSE IF fc = MB_FC_WRITE_MULTIPLE_COILS
    THEN IF nb <= 8 THEN << 1, 90 >> ELSE << 2, 90, 195 >>
    ELSE << >>

ReqBody(id, fc, add, nb) ==
    << id, fc, highByte(add), lowByte(add), highByte(nb), lowByte(nb) >>
        \o ReqData(fc, nb)

ReqAdds == (0..(MaxBank + 1)) \cup {15, 16, 17}
              \cup {16 * MaxBank - 1, 16 * MaxBank, 16 * MaxBank + 1}
ReqNbs == {0, 1, 2, 3, 16, 17, 2000, 65280, 65535}

\* the frames a slave is tried on, one per behaviour
ReqFrames ==
    {WithCRC(ReqBody(SlaveId, fc, add, nb)) :
        fc \in Supported, add \in ReqAdds, nb \in ReqNbs}
    \cup {WithCRC(ReqBody(SlaveId, fc, 0, 1)) : fc \in 0..255}
    \cup {WithBadCRC(ReqBody(SlaveId, fc, 0, 1)) : fc \in 0..255}
    \cup {WithCRC(ReqBody(id, fc, 0, 1)) : id \in {0, OtherId}, fc \in {3, 7, 131}}
    \cup {WithBadCRC(ReqBody(id, fc, 0, 1)) : id \in {0, OtherId}, fc \in {6, 7}}
    \cup {WithCRC(<< SlaveId, fc, 0, 0 >>) : fc \in {3, 7}}

HandleInit(type, id) ==
    /\ uModbusType = type
    /\ u8id = id
    /\ u8Buffer = EmptyArray
    /\ u8BufferSize = 0
    /\ i8lastError = 0
    /\ i8state = COM_IDLE
    /\ u16InCnt = 0
    /\ u16OutCnt = 0
    /\ u16errCnt = 0
    /\ ModBusSphr = "free"
    /\ u8exception = 0
    /\ txReturn = "top"
    /\ ulNotifiedValue = 0
    /\ xTimerTimeout = FALSE
    /\ txLine = << >>
    /\ txBusy = FALSE
    /\ EN_Pin = "RX"
    /\ hostPc = "idle"
    /\ oob = FALSE
    /\ reqFrame = << >>

NoTelegram == [u8id |-> 0, u8fct |-> 0, u16RegAdd |-> 0, u16CoilsNo |-> 0,
               u16reg |-> "NULL", u32CurrentTask |-> 0]

\* the handle of a slave whose host has bound a holding bank of hr words, a
\* coil bank of co words (none when co = 0) and, when inputs, the two input
\* banks; a bank the host has not bound is the NULL pointer
SlaveBanksWith(hr, co, inputs) ==
    /\ mem = SlaveMem(hr, co)
    /\ u16regsHR = "hr"
    /\ u16regsRO = IF inputs THEN "ro" ELSE "NULL"
    /\ u16regsCoils = IF co > 0 THEN "coils" ELSE "NULL"
    /\ u16regsCoilsRO = IF inputs THEN "di" ELSE "NULL"
    /\ u16regHR_size = hr
    /\ u16regCoils_size = co
    /\ telegram = NoTelegram
    /\ QueueTelegram = << >>
    /\ origNotify = << >>

SlaveBanks(hr, co) == SlaveBanksWith(hr, co, TRUE)

(***************************************************************************)
(* SpecReq: a slave that has received one frame; T3.5 has expired and the  *)
(* worker, blocked at the head of its loop, has been notified.             *)
(***************************************************************************)
ReqInit ==
    /\ HandleInit(MB_SLAVE, SlaveId)
    /\ \E hr \in 1..MaxBank, co \in 0..MaxBank, inputs \in BOOLEAN :
         SlaveBanksWith(hr, co, inputs)
    /\ \E f \in ReqFrames : xBufferRX = RingAddAll(EmptyRing, f)
    /\ pc = "wait"
    /\ notifyWoken = TRUE
    /\ xTimerT35 = FALSE
    /\ wire = << >>
    /\ env = [frames |-> 0, queries |-> 0, replies |-> 0, hostops |-> 0,
              deq |-> {}, heard |-> 0]

ReqNext ==
    \/ SlaveWake
    \/ SlaveExcDone
    \/ SlaveTakeSem
    \/ SlaveProcess
    \/ SlaveGiveSem
    \/ SlaveTop
    \/ sendTxBufferStart
    \/ sendTxBufferTransmit
    \/ sendTxBufferEnd
    \/ TxCpltISR

SpecReq == ReqInit /\ [][ReqNext]_vars

(***************************************************************************)
(* The host task: it takes the semaphore, writes a word of a bank, and     *)
(* gives the semaphore back.                                               *)
(***************************************************************************)
HostTake ==
    /\ hostPc = "idle"
    /\ env.hostops > 0
    /\ ModBusSphr = "free"
    /\ ModBusSphr' = "host"
    /\ hostPc' = "hold"
    /\ env' = [env EXCEPT !.hostops = @ - 1]
    /\ UNCHANGED << hwVars, bankVars, frameVars, countVars, notifyVars,
                    timerVars, lineVars, masterVars, xBufferRX, i8lastError,
                    i8state, pc, u8exception, txReturn, reqFrame >>

HostWrite ==
    /\ hostPc = "hold"
    /\ \E p \in DOMAIN mem : mem' = MemWrite(mem, p, 0, 43981)
    /\ hostPc' = "done"
    /\ UNCHANGED << hwVars, u16regsHR, u16regsRO, u16regsCoils, u16regsCoilsRO,
                    oob, frameVars, countVars, notifyVars,
                    timerVars, lineVars, masterVars, xBufferRX, i8lastError,
                    i8state, pc, u8exception, txReturn, reqFrame, ModBusSphr,
                    env >>

HostGive ==
    /\ hostPc = "done"
    /\ ModBusSphr' = "free"
    /\ hostPc' = "idle"
    /\ UNCHANGED << hwVars, bankVars, frameVars, countVars, notifyVars,
                    timerVars, lineVars, masterVars, xBufferRX, i8lastError,
                    i8state, pc, u8exception, txReturn, reqFrame, env >>

(***************************************************************************)
(* SpecSlave: a slave on a line that delivers up to MaxFrames frames, byte *)
(* by byte, back to back or separated by silence.                          *)
(***************************************************************************)
SlaveFrames ==
    { WithCRC(ReqBody(SlaveId, MB_FC_READ_REGISTERS, 0, 1)),
      WithBadCRC(ReqBody(SlaveId, MB_FC_READ_REGISTERS, 0, 1)),
      WithCRC(ReqBody(OtherId, MB_FC_READ_REGISTERS, 0, 1)),
      WithCRC(ReqBody(SlaveId, 7, 0, 1)),
      WithCRC(ReqBody(SlaveId, MB_FC_WRITE_MULTIPLE_REGISTERS, 0, 2)),
      WithCRC(<< SlaveId, 7, 0, 0 >>) }

\* the line starts to deliver a frame
SlaveLine ==
    /\ uModbusType = MB_SLAVE
    /\ env.frames > 0
    /\ wire = << >>
    /\ \E f \in SlaveFrames : wire' = f
    /\ env' = [env EXCEPT !.frames = @ - 1]
    /\ UNCHANGED << hwVars, bankVars, frameVars, countVars, notifyVars,
                    timerVars, txLine, txBusy, EN_Pin, masterVars, xBufferRX,
                    i8lastError, i8state, ModBusSphr, pc, u8exception,
                    txReturn, hostPc, reqFrame >>

SlaveStart(frames, hostops) ==
    /\ HandleInit(MB_SLAVE, SlaveId)
    /\ SlaveBanks(MaxBank, MaxBank)
    /\ xBufferRX = EmptyRing
    /\ pc = "top"
    /\ notifyWoken = FALSE
    /\ xTimerT35 = FALSE
    /\ wire = << >>
    /\ env = [frames |-> frames, queries |-> 0, replies |-> 0,
              hostops |-> hostops, deq |-> {}, heard |-> 0]

SlaveInit == SlaveStart(MaxFrames, 0)

SlaveNext ==
    \/ SlaveLine
    \/ RxISR
    \/ vTimerCallbackT35
    \/ TxCpltISR
    \/ SlaveTop
    \/ SlaveWake
    \/ SlaveExcDone
    \/ SlaveTakeSem
    \/ SlaveProcess
    \/ SlaveGiveSem
    \/ sendTxBufferStart
    \/ sendTxBufferTransmit
    \/ sendTxBufferEnd

SpecSlave == SlaveInit /\ [][SlaveNext]_vars

(***************************************************************************)
(* Master: validateAnswer, get_FC1, get_FC3.                               *)
(***************************************************************************)
\* validateAnswer on (buf, size): [ret, errCnt]; ret is the uint8_t returned
validateAnswer(buf, size) ==
    IF calcCRC(buf, size - 2) # MsgCRC(buf, size)
    THEN [ret |-> U8(ERR_BAD_CRC), errCnt |-> U16(u16errCnt + 1)]
    ELSE IF BitAnd(buf[FUNC], 128, 8) # 0
    THEN [ret |-> U8(ERR_EXCEPTION), errCnt |-> U16(u16errCnt + 1)]
    ELSE IF ~isSupported(buf[FUNC])
    THEN [ret |-> EXC_FUNC_CODE, errCnt |-> U16(u16errCnt + 1)]
    ELSE [ret |-> 0, errCnt |-> u16errCnt]

\* a byte of the frame buffer; g past the end of the array
BufRead(buf, i, g) == IF i \in DOMAIN buf THEN buf[i] ELSE g % 256

RECURSIVE FC1Get(_, _, _, _)
FC1Get(m, bad, i, g) ==
    IF ~(bad \in BOOLEAN) \/ i >= u8Buffer[2]
    THEN [mem |-> m, oob |-> bad]
    ELSE LET old == MemRead(m, u16regsCoils, i \div 2, g)
             new == IF i % 2 = 1
                    THEN word(BufRead(u8Buffer, i + 3, g), lowByte(old))
                    ELSE word(highByte(old), BufRead(u8Buffer, i + 3, g))
         IN  FC1Get(MemWrite(m, u16regsCoils, i \div 2, new),
                    bad \/ ~InBank(m, u16regsCoils, i \div 2), i + 1, g)

get_FC1(g) == FC1Get(mem, FALSE, 0, g)

RECURSIVE FC3Get(_, _, _, _, _)
FC3Get(m, bad, i, u8byte, g) ==
    IF ~(bad \in BOOLEAN) \/ i >= u8Buffer[2] \div 2
    THEN [mem |-> m, oob |-> bad]
    ELSE FC3Get(MemWrite(m, u16regsHR, i,
                         word(BufRead(u8Buffer, u8byte, g),
                              BufRead(u8Buffer, u8byte + 1, g))),
                bad \/ ~InBank(m, u16regsHR, i), i + 1, U8(u8byte + 2), g)

\* a parser that takes the data one byte too late
get_FC3Shifted(g) == FC3Get(mem, FALSE, 0, 4, g)

get_FC3(g) == FC3Get(mem, FALSE, 0, 3, g)

(***************************************************************************)
(* ModbusQuery and the telegram queue.                                     *)
(***************************************************************************)
\* the telegrams a host task asks for; task is the originator
Telegrams(task) ==
    { [u8id |-> SlaveId, u8fct |-> MB_FC_READ_REGISTERS, u16RegAdd |-> 0,
       u16CoilsNo |-> 1, u16reg |-> "data", u32CurrentTask |-> task],
      [u8id |-> 0, u8fct |-> MB_FC_READ_REGISTERS, u16RegAdd |-> 0,
       u16CoilsNo |-> 1, u16reg |-> "data", u32CurrentTask |-> task] }

\* xQueueSendToBack(queue, item, 0): [ok, queue]
xQueueSendToBack(queue, item) ==
    IF Len(queue) < MAX_TELEGRAMS
    THEN [ok |-> TRUE, queue |-> Append(queue, item)]
    ELSE [ok |-> FALSE, queue |-> queue]

\* a host task calls ModbusQuery with one of the telegrams; the originators
\* are numbered in the order of their calls
ModbusQueryOf(telegrams) ==
    /\ uModbusType = MB_MASTER
    /\ env.queries > 0
    /\ \E t \in telegrams :
         QueueTelegram' = xQueueSendToBack(QueueTelegram, t).queue
    /\ env' = [env EXCEPT !.queries = @ - 1]
    /\ UNCHANGED << hwVars, bankVars, frameVars, countVars, notifyVars,
                    timerVars, lineVars, telegram, origNotify, xBufferRX,
                    i8lastError, i8state, ModBusSphr, pc, u8exception,
                    txReturn, hostPc, reqFrame >>

ModbusQuery == ModbusQueryOf(Telegrams(Len(origNotify) - env.queries + 1))

\* xTaskNotify(originator, value, eSetValueWithOverwrite)
NotifyOriginator(value) ==
    origNotify' = [origNotify EXCEPT ![telegram.u32CurrentTask] = Append(@, value)]

(***************************************************************************)
(* StartTaskModbusMaster and SendQuery.                                    *)
(***************************************************************************)
MasterDequeue ==
    /\ uModbusType = MB_MASTER
    /\ pc = "queue"
    /\ QueueTelegram # << >>
    /\ telegram' = Head(QueueTelegram)
    /\ QueueTelegram' = Tail(QueueTelegram)
    /\ env' = [env EXCEPT !.deq = @ \cup {Head(QueueTelegram).u32CurrentTask}]
    /\ pc' = "sqTake"
    /\ UNCHANGED << hwVars, bankVars, frameVars, countVars, notifyVars,
                    timerVars, lineVars, origNotify, xBufferRX,
                    i8lastError, i8state, ModBusSphr, u8exception,
                    txReturn, hostPc, reqFrame >>

SendQueryTake ==
    /\ uModbusType = MB_MASTER
    /\ pc = "sqTake"
    /\ ModBusSphr = "free"
    /\ ModBusSphr' = "worker"
    /\ pc' = "sqBuild"
    /\ UNCHANGED << hwVars, bankVars, frameVars, countVars, notifyVars,
                    timerVars, lineVars, masterVars, xBufferRX,
                    i8lastError, i8state, u8exception, txReturn, hostPc,
                    reqFrame, env >>

\* the value of the local error after the three checks
SendQueryError ==
    IF telegram.u8id = 0 \/ telegram.u8id > 247 THEN U8(ERR_BAD_SLAVE_ID)
    ELSE IF i8state # COM_IDLE THEN U8(ERR_POLLING)
    ELSE IF u8id # 0 THEN U8(ERR_NOT_MASTER)
    ELSE 0

CoilFcts == {MB_FC_READ_COILS, MB_FC_READ_DISCRETE_INPUT, MB_FC_WRITE_COIL,
             MB_FC_WRITE_MULTIPLE_COILS}
RegFcts == {MB_FC_READ_REGISTERS, MB_FC_READ_INPUT_REGISTER,
            MB_FC_WRITE_REGISTER, MB_FC_WRITE_MULTIPLE_REGISTERS}

\* the data bytes of an FC 15 query: [buf, size]
RECURSIVE SQ15Loop(_, _, _, _, _)
SQ15Loop(buf, size, i, u8bytesno, g) ==
    IF size < 0 \/ i >= u8bytesno THEN [buf |-> buf, size |-> size]
    ELSE LET w == MemRead(mem, telegram.u16reg, i \div 2, g)
         IN  SQ15Loop(BufSet(buf, size, IF i % 2 = 1 THEN lowByte(w) ELSE highByte(w)),
                      U8(size + 1), i + 1, u8bytesno, g)

\* the data bytes of an FC 16 query: [buf, size]
RECURSIVE SQ16Loop(_, _, _, _, _)
SQ16Loop(buf, size, i, n, g) ==
    IF size < 0 \/ i >= n THEN [buf |-> buf, size |-> size]
    ELSE LET w == MemRead(mem, telegram.u16reg, i, g)
             b1 == BufSet(buf, size, highByte(w))
             b2 == BufSet(b1, U8(size + 1), lowByte(w))
         IN  SQ16Loop(b2, U8(size + 2), i + 1, n, g)

\* the request SendQuery builds in the frame buffer: [buf, size]
SendQueryFrame(g) ==
    LET t == telegram
        h == [u8Buffer EXCEPT ![ID] = t.u8id, ![FUNC] = t.u8fct,
                              ![ADD_HI] = highByte(t.u16RegAdd),
                              ![ADD_LO] = lowByte(t.u16RegAdd)]
        nb == [h EXCEPT ![NB_HI] = highByte(t.u16CoilsNo),
                        ![NB_LO] = lowByte(t.u16CoilsNo)]
        w0 == MemRead(mem, t.u16reg, 0, g)
    IN  IF t.u8fct \in {MB_FC_READ_COILS, MB_FC_READ_DISCRETE_INPUT,
                        MB_FC_READ_REGISTERS, MB_FC_READ_INPUT_REGISTER}
        THEN [buf |-> nb, size |-> 6]
        ELSE IF t.u8fct = MB_FC_WRITE_COIL
        THEN [buf |-> [h EXCEPT ![NB_HI] = IF w0 > 0 THEN 255 ELSE 0,
                                ![NB_LO] = 0], size |-> 6]
        ELSE IF t.u8fct = MB_FC_WRITE_REGISTER
        THEN [buf |-> [h EXCEPT ![NB_HI] = highByte(w0),
                                ![NB_LO] = lowByte(w0)], size |-> 6]
        ELSE IF t.u8fct = MB_FC_WRITE_MULTIPLE_COILS
        THEN LET u8regsno == U8(t.u16CoilsNo \div 16)
                 u8bytesno == U8(U8(u8regsno * 2)
                                 + (IF t.u16CoilsNo % 16 # 0 THEN 1 ELSE 0))
             IN  SQ15Loop([nb EXCEPT ![BYTE_CNT] = u8bytesno], 7, 0, u8bytesno, g)
        ELSE IF t.u8fct = MB_FC_WRITE_MULTIPLE_REGISTERS
        THEN SQ16Loop([nb EXCEPT ![BYTE_CNT] = U8(t.u16CoilsNo * 2)], 7, 0,
                      t.u16CoilsNo, g)
        ELSE [buf |-> h, size |-> u8BufferSize]

\* SendQuery from the checks to the call of sendTxBuffer, or to its return
\* with an error (the worker then goes on to wait for its notification)
SendQueryBuild ==
    /\ uModbusType = MB_MASTER
    /\ pc = "sqBuild"
    /\ IF SendQueryError # 0
       THEN /\ i8lastError' = I8(SendQueryError)
            /\ ModBusSphr' = "free"
            /\ pc' = "wait"
            /\ UNCHANGED << frameVars, u16regsCoils, u16regsHR, txReturn >>
       ELSE /\ \E g \in Garbage :
                 LET f == SendQueryFrame(g)
                 IN  /\ u8Buffer' = f.buf
                     /\ u8BufferSize' = f.size
            /\ u16regsCoils' = IF telegram.u8fct \in CoilFcts
                               THEN telegram.u16reg ELSE u16regsCoils
            /\ u16regsHR' = IF telegram.u8fct \in RegFcts
                            THEN telegram.u16reg ELSE u16regsHR
            /\ pc' = "tx"
            /\ txReturn' = "sqGive"
            /\ UNCHANGED << i8lastError, ModBusSphr >>
    /\ UNCHANGED << hwVars, mem, u16regsRO, u16regsCoilsRO, oob, countVars,
                    notifyVars, timerVars, lineVars, masterVars, xBufferRX,
                    i8state, u8exception, hostPc, reqFrame, env >>

\* SendQuery after sendTxBuffer
SendQueryGive ==
    /\ uModbusType = MB_MASTER
    /\ pc = "sqGive"
    /\ ModBusSphr' = "free"
    /\ i8state' = COM_WAITING
    /\ i8lastError' = 0
    /\ pc' = "wait"
    /\ UNCHANGED << hwVars, bankVars, frameVars, countVars, notifyVars,
                    timerVars, lineVars, masterVars, xBufferRX,
                    u8exception, txReturn, hostPc, reqFrame, env >>

\* a timeout branch that leaves i8state as it is
MasterTimedOutKeepsState ==
    [state |-> i8state, err |-> ERR_TIME_OUT, errCnt |-> U16(u16errCnt + 1),
     exc |-> 0, note |-> ERR_TIME_OUT, stop |-> FALSE, pc |-> "queue"]

\* a timeout branch that does not count the error
MasterTimedOutUncounted ==
    [state |-> COM_IDLE, err |-> ERR_TIME_OUT, errCnt |-> u16errCnt,
     exc |-> 0, note |-> ERR_TIME_OUT, stop |-> FALSE, pc |-> "queue"]

\* the branch of a non-zero notification value (the response timeout)
MasterTimedOut ==
    [state |-> COM_IDLE, err |-> ERR_TIME_OUT, errCnt |-> U16(u16errCnt + 1),
     exc |-> 0, note |-> ERR_TIME_OUT, stop |-> FALSE, pc |-> "queue"]

\* what the loop assigns from the wake-up to the next suspension point:
\* [state, err, errCnt, exc, note, stop, pc]; note is the value the originator
\* is notified with (0: none), stop tells whether xTimerStop is reached
MasterAnswer(ulNotificationValue, rx) ==
    IF ulNotificationValue # 0
    THEN MasterTimedOut
    ELSE IF rx.size < 6
    THEN [state |-> COM_IDLE, err |-> ERR_BAD_SIZE, errCnt |-> U16(u16errCnt + 1),
          exc |-> 0, note |-> ERR_BAD_SIZE, stop |-> FALSE, pc |-> "queue"]
    ELSE LET v == validateAnswer(rx.buf, rx.size)
         IN  IF I8(v.ret) # 0
             THEN [state |-> COM_IDLE, err |-> I8(v.ret), errCnt |-> v.errCnt,
                   exc |-> I8(v.ret), note |-> I8(v.ret), stop |-> TRUE,
                   pc |-> "queue"]
             ELSE [state |-> i8state, err |-> I8(v.ret), errCnt |-> v.errCnt,
                   exc |-> I8(v.ret), note |-> 0, stop |-> TRUE,
                   pc |-> "parseTake"]

MasterWake ==
    /\ uModbusType = MB_MASTER
    /\ pc = "wait"
    /\ ulNotifiedValue # 0 \/ notifyWoken
    /\ ulNotifiedValue' = 0
    /\ notifyWoken' = FALSE
    /\ LET rx == IF ulNotifiedValue # 0
                 THEN [result |-> 0, buf |-> u8Buffer, size |-> u8BufferSize,
                       rb |-> xBufferRX, inCnt |-> u16InCnt]
                 ELSE getRxBuffer
           r  == MasterAnswer(ulNotifiedValue, rx)
       IN  /\ xBufferRX' = rx.rb
           /\ u16InCnt' = rx.inCnt
           /\ u8Buffer' = rx.buf
           /\ u8BufferSize' = rx.size
           /\ i8state' = r.state
           /\ i8lastError' = r.err
           /\ u16errCnt' = r.errCnt
           /\ u8exception' = r.exc
           /\ xTimerTimeout' = IF r.stop THEN FALSE ELSE xTimerTimeout
           /\ origNotify' = IF r.note # 0
                            THEN [origNotify EXCEPT
                                    ![telegram.u32CurrentTask] = Append(@, r.note)]
                            ELSE origNotify
           /\ reqFrame' = IF ulNotifiedValue # 0 THEN << >>
                          ELSE BufSeq(rx.buf, rx.size)
           /\ pc' = r.pc
    /\ UNCHANGED << hwVars, bankVars, u16OutCnt, xTimerT35, lineVars,
                    telegram, QueueTelegram, ModBusSphr, txReturn, hostPc, env >>

MasterParseTake ==
    /\ uModbusType = MB_MASTER
    /\ pc = "parseTake"
    /\ ModBusSphr = "free"
    /\ ModBusSphr' = "worker"
    /\ pc' = "parse"
    /\ UNCHANGED << hwVars, bankVars, frameVars, countVars, notifyVars,
                    timerVars, lineVars, masterVars, xBufferRX,
                    i8lastError, i8state, u8exception, txReturn, hostPc,
                    reqFrame, env >>

\* the switch on the function byte of the answer, then i8state = COM_IDLE
MasterParse ==
    /\ uModbusType = MB_MASTER
    /\ pc = "parse"
    /\ \E g \in Garbage :
         LET fc == u8Buffer[FUNC]
             r == IF fc \in {MB_FC_READ_COILS, MB_FC_READ_DISCRETE_INPUT}
                  THEN get_FC1(g)
                  ELSE IF fc \in {MB_FC_READ_INPUT_REGISTER, MB_FC_READ_REGISTERS}
                  THEN get_FC3(g)
                  ELSE [mem |-> mem, oob |-> FALSE]
         IN  /\ mem' = r.mem
             /\ oob' = (oob \/ r.oob)
    /\ i8state' = COM_IDLE
    /\ pc' = "parseGive"
    /\ UNCHANGED << hwVars, u16regsHR, u16regsRO, u16regsCoils, u16regsCoilsRO,
                    frameVars, countVars, notifyVars, timerVars, lineVars,
                    masterVars, xBufferRX, i8lastError, ModBusSphr,
                    u8exception, txReturn, hostPc, reqFrame, env >>

\* an end of the parsing that keeps the semaphore
MasterParseKeepsSem ==
    /\ uModbusType = MB_MASTER
    /\ pc = "parseGive"
    /\ IF i8lastError = 0 THEN NotifyOriginator(ERR_OK_QUERY)
       ELSE UNCHANGED origNotify
    /\ pc' = "queue"
    /\ UNCHANGED << hwVars, bankVars, frameVars, countVars, notifyVars,
                    timerVars, lineVars, telegram, QueueTelegram, xBufferRX,
                    i8lastError, i8state, u8exception, txReturn, hostPc,
                    reqFrame, env, ModBusSphr >>

\* if (i8lastError == 0) { give the semaphore; notify ERR_OK_QUERY }
MasterParseGive ==
    /\ uModbusType = MB_MASTER
    /\ pc = "parseGive"
    /\ ModBusSphr' = IF i8lastError = 0 THEN "free" ELSE ModBusSphr
    /\ IF i8lastError = 0 THEN NotifyOriginator(ERR_OK_QUERY)
       ELSE UNCHANGED origNotify
    /\ pc' = "queue"
    /\ UNCHANGED << hwVars, bankVars, frameVars, countVars, notifyVars,
                    timerVars, lineVars, telegram, QueueTelegram, xBufferRX,
                    i8lastError, i8state, u8exception, txReturn, hostPc,
                    reqFrame, env >>

(***************************************************************************)
(* SpecMaster: a master whose host tasks call ModbusQuery up to MaxQueries *)
(* times, on a line that delivers up to MaxReplies frames.                 *)
(***************************************************************************)
MasterReplies ==
    { WithCRC(<< SlaveId, MB_FC_READ_REGISTERS, 2, 0, 42 >>),
      WithBadCRC(<< SlaveId, MB_FC_READ_REGISTERS, 2, 0, 42 >>),
      WithCRC(<< SlaveId, 131, 2 >>),
      WithCRC(<< SlaveId, 131, 2, 0 >>) }

\* the line starts to deliver a frame
MasterLine ==
    /\ uModbusType = MB_MASTER
    /\ env.replies > 0
    /\ wire = << >>
    /\ \E f \in MasterReplies : wire' = f
    /\ env' = [env EXCEPT !.replies = @ - 1]
    /\ UNCHANGED << hwVars, bankVars, frameVars, countVars, notifyVars,
                    timerVars, txLine, txBusy, EN_Pin, masterVars, xBufferRX,
                    i8lastError, i8state, ModBusSphr, pc, u8exception,
                    txReturn, hostPc, reqFrame >>

MasterStart(queries, replies, hostops) ==
    /\ HandleInit(MB_MASTER, 0)
    /\ mem = [p \in {"data"} |-> Bank(<< 0 >>, 1)]
    /\ u16regsHR = "NULL"
    /\ u16regsRO = "NULL"
    /\ u16regsCoils = "NULL"
    /\ u16regsCoilsRO = "NULL"
    /\ u16regHR_size = 0
    /\ u16regCoils_size = 0
    /\ telegram = NoTelegram
    /\ QueueTelegram = << >>
    /\ origNotify = [k \in 1..queries |-> << >>]
    /\ xBufferRX = EmptyRing
    /\ pc = "queue"
    /\ notifyWoken = FALSE
    /\ xTimerT35 = FALSE
    /\ wire = << >>
    /\ env = [frames |-> 0, queries |-> queries, replies |-> replies,
              hostops |-> hostops, deq |-> {}, heard |-> 0]

MasterInit == MasterStart(MaxQueries, MaxReplies, 0)

MasterWorker ==
    \/ MasterDequeue
    \/ SendQueryTake
    \/ SendQueryBuild
    \/ SendQueryGive
    \/ sendTxBufferStart
    \/ sendTxBufferTransmit
    \/ sendTxBufferEnd
    \/ MasterWake
    \/ MasterParseTake
    \/ MasterParse
    \/ MasterParseGive

MasterNext ==
    \/ ModbusQuery
    \/ MasterLine
    \/ RxISR
    \/ vTimerCallbackT35
    \/ vTimerCallbackTimeout
    \/ TxCpltISR
    \/ MasterWorker

SpecMaster == MasterInit /\ [][MasterNext]_vars

(***************************************************************************)
(* MasterFair: SpecMaster under the scheduling the kernel and the hardware *)
(* guarantee: a ready worker runs, an armed timer expires, a byte on the   *)
(* line is received and a started transmission completes.  Nothing obliges *)
(* the host to call ModbusQuery or the line to deliver a frame.            *)
(***************************************************************************)
MasterProgress ==
    \/ MasterWorker
    \/ vTimerCallbackTimeout
    \/ vTimerCallbackT35
    \/ RxISR
    \/ TxCpltISR

MasterFair == SpecMaster /\ WF_vars(MasterProgress)

(***************************************************************************)
(* Spec: an instance of either role beside a host task that uses the banks *)
(* (the data array of the master) under the semaphore.                     *)
(***************************************************************************)
Init ==
    \/ SlaveStart(SemFrames, MaxHostOps)
    \/ MasterStart(SemQueries, SemReplies, MaxHostOps)

Next ==
    \/ SlaveLine
    \/ SlaveTop
    \/ SlaveWake
    \/ SlaveExcDone
    \/ SlaveTakeSem
    \/ SlaveProcess
    \/ SlaveGiveSem
    \/ MasterNext
    \/ HostTake
    \/ HostWrite
    \/ HostGive

Spec == Init /\ [][Next]_vars

(***************************************************************************)
(* SpecRing: the ring-buffer functions called in any order on the ring of  *)
(* a handle, the drains into the frame buffer.  The bytes pushed are all   *)
(* different, so that their order can be told.                             *)
(***************************************************************************)
RingByte(k) == (k % 255) + 1

\* the numbers of bytes a drain is asked for
DrainSizes == {0, 1, 2, MAX_BUFFER - 1, MAX_BUFFER, MAX_BUFFER + 1}

RingInit ==
    /\ HandleInit(MB_SLAVE, SlaveId)
    /\ SlaveBanks(1, 1)
    /\ xBufferRX = EmptyRing
    /\ pc = "top"
    /\ notifyWoken = FALSE
    /\ xTimerT35 = FALSE
    /\ wire = << >>
    /\ env = [pushed |-> 0, drains |-> MaxDrains, last |-> "none",
              arg |-> 0, ret |-> 0]

ringFrame == << hwVars, bankVars, u8BufferSize, countVars, notifyVars,
               timerVars, lineVars, masterVars, i8lastError, i8state,
               ModBusSphr, pc, u8exception, txReturn, hostPc, reqFrame >>

CallRingAdd ==
    /\ env.pushed < MAX_BUFFER + MaxOverrun
    /\ xBufferRX' = RingAdd(xBufferRX, RingByte(env.pushed))
    /\ env' = [env EXCEPT !.pushed = @ + 1, !.last = "RingAdd",
                          !.arg = RingByte(env.pushed), !.ret = 0]
    /\ UNCHANGED << ringFrame, u8Buffer >>

CallRingGetNBytes ==
    /\ env.drains > 0
    /\ \E uNumber \in DrainSizes :
         LET r == RingGetNBytes(xBufferRX, u8Buffer, uNumber)
         IN  /\ xBufferRX' = r.rb
             /\ u8Buffer' = r.buffer
             /\ env' = [env EXCEPT !.drains = @ - 1, !.last = "RingGetNBytes",
                                   !.arg = uNumber, !.ret = r.ret]
    /\ UNCHANGED ringFrame

CallRingGetAllBytes ==
    /\ env.drains > 0
    /\ LET r == RingGetAllBytes(xBufferRX, u8Buffer)
       IN  /\ xBufferRX' = r.rb
           /\ u8Buffer' = r.buffer
           /\ env' = [env EXCEPT !.drains = @ - 1, !.last = "RingGetAllBytes",
                                 !.arg = xBufferRX.u8available, !.ret = r.ret]
    /\ UNCHANGED ringFrame

CallRingClear ==
    /\ env.drains > 0
    /\ xBufferRX' = RingClear(xBufferRX)
    /\ env' = [env EXCEPT !.drains = @ - 1, !.last = "RingClear",
                          !.arg = 0, !.ret = 0]
    /\ UNCHANGED << ringFrame, u8Buffer >>

RingNext ==
    \/ CallRingAdd
    \/ CallRingGetNBytes
    \/ CallRingGetAllBytes
    \/ CallRingClear

SpecRing == RingInit /\ [][RingNext]_vars

(***************************************************************************)
(* SpecTrip: a master that asks a remote slave for holding registers.  The *)
(* remote slave runs the same code on its own handle: what it receives     *)
(* goes through its ring buffer into its frame buffer, is checked by the   *)
(* tests of its loop and of validateRequest, and is answered by            *)
(* process_FC3 and sendTxBuffer.  env.bank is its holding bank.            *)
(***************************************************************************)
TripWords == {255, 4660, 65280}

TripBanks == [0..(TripBank - 1) -> TripWords]

\* the telegrams of the host: registers the remote slave has
TripTelegrams ==
    { t \in { [u8id |-> SlaveId, u8fct |-> MB_FC_READ_REGISTERS,
               u16RegAdd |-> a, u16CoilsNo |-> n, u16reg |-> "data",
               u32CurrentTask |-> 1] :
                  a \in 0..(TripBank - 1), n \in 1..TripBank } :
        t.u16RegAdd + t.u16CoilsNo <= TripBank }

\* getRxBuffer of the remote slave after it has received req
RemoteRx(req) == RingGetAllBytes(RingAddAll(EmptyRing, req), EmptyArray)

\* the remote slave, with the holding bank bank, goes on to process_FC3
RemoteAccepts(req, bank) ==
    LET rx == RemoteRx(req)
    IN  /\ ~(rx.ret < 7)
        /\ rx.buffer[ID] = SlaveId
        /\ calcCRC(rx.buffer, rx.ret - 2) = MsgCRC(rx.buffer, rx.ret)
        /\ isSupported(rx.buffer[FUNC])
        /\ RangeCheckOn(rx.buffer, Cardinality(DOMAIN bank), 0) = 0
        /\ rx.buffer[FUNC] = MB_FC_READ_REGISTERS

\* the frame it transmits then
RemoteReply(req, bank) ==
    LET rx == RemoteRx(req)
        h  == FC3Frame(rx.buffer, [p \in {"hr"} |-> bank], "hr", 0)
    IN  WithCRC(BufSeq(h.buf, h.size))

\* the remote slave answers the request the master has transmitted
TripLine ==
    /\ uModbusType = MB_MASTER
    /\ env.replies > 0
    /\ wire = << >>
    /\ txLine # << >> /\ ~txBusy /\ EN_Pin = "RX"
    /\ RemoteAccepts(txLine, env.bank)
    /\ wire' = RemoteReply(txLine, env.bank)
    /\ env' = [env EXCEPT !.replies = @ - 1]
    /\ UNCHANGED << hwVars, bankVars, frameVars, countVars, notifyVars,
                    timerVars, txLine, txBusy, EN_Pin, masterVars, xBufferRX,
                    i8lastError, i8state, ModBusSphr, pc, u8exception,
                    txReturn, hostPc, reqFrame >>

TripInit ==
    /\ HandleInit(MB_MASTER, 0)
    /\ mem = [p \in {"data"} |-> Bank(<< 0 >>, TripBank)]
    /\ u16regsHR = "NULL"
    /\ u16regsRO = "NULL"
    /\ u16regsCoils = "NULL"
    /\ u16regsCoilsRO = "NULL"
    /\ u16regHR_size = 0
    /\ u16regCoils_size = 0
    /\ telegram = NoTelegram
    /\ QueueTelegram = << >>
    /\ origNotify = << << >> >>
    /\ xBufferRX = EmptyRing
    /\ pc = "queue"
    /\ notifyWoken = FALSE
    /\ xTimerT35 = FALSE
    /\ wire = << >>
    /\ \E bank \in TripBanks :
         env = [frames |-> 0, queries |-> 1, replies |-> 1, hostops |-> 0,
                deq |-> {}, heard |-> 0, bank |-> bank]

TripNext ==
    \/ ModbusQueryOf(TripTelegrams)
    \/ TripLine
    \/ RxISR
    \/ vTimerCallbackT35
    \/ vTimerCallbackTimeout
    \/ TxCpltISR
    \/ MasterWorker

SpecTrip == TripInit /\ [][TripNext]_vars

(***************************************************************************)
(* SpecCoils: a master that writes coils of a remote slave with FC 15.     *)
(* The remote slave runs the same code on its own handle: the request goes *)
(* through its ring buffer into its frame buffer, is checked by the tests  *)
(* of its loop and of validateRequest, and is handled by process_FC15,     *)
(* which answers with the first six bytes of the request.  env.bank is its *)
(* coil bank, env.start and env.qty the range the master writes.           *)
(***************************************************************************)
Fc15Bank == 2

\* the contents of the caller's buffer
Fc15Words == {1, 256, 42435}

Fc15Starts == {0, 3}

Fc15Quantities == {1, 8, 9, 16}

Fc15Telegrams(start, qty) ==
    { [u8id |-> SlaveId, u8fct |-> MB_FC_WRITE_MULTIPLE_COILS,
       u16RegAdd |-> start, u16CoilsNo |-> qty, u16reg |-> "data",
       u32CurrentTask |-> 1] }

\* the remote slave, with a coil bank of Fc15Bank words, goes on to
\* process_FC15
Fc15Accepts(req) ==
    LET rx == RemoteRx(req)
    IN  /\ ~(rx.ret < 7)
        /\ rx.buffer[ID] = SlaveId
        /\ calcCRC(rx.buffer, rx.ret - 2) = MsgCRC(rx.buffer, rx.ret)
        /\ isSupported(rx.buffer[FUNC])
        /\ RangeCheckOn(rx.buffer, 0, Fc15Bank) = 0
        /\ rx.buffer[FUNC] = MB_FC_WRITE_MULTIPLE_COILS

\* the remote slave handles the request the master has transmitted and
\* answers it
Fc15Line ==
    /\ uModbusType = MB_MASTER
    /\ env.replies > 0
    /\ wire = << >>
    /\ txLine # << >> /\ ~txBusy /\ EN_Pin = "RX"
    /\ Fc15Accepts(txLine)
    /\ LET rx == RemoteRx(txLine)
           h  == FC15Write(rx.buffer, [p \in {"coils"} |-> env.bank], "coils", 0)
       IN  /\ wire' = WithCRC(BufSeq(rx.buffer, 6))
           /\ env' = [env EXCEPT !.replies = @ - 1, !.bank = h.mem["coils"],
                                 !.written = TRUE]
    /\ UNCHANGED << hwVars, bankVars, frameVars, countVars, notifyVars,
                    timerVars, txLine, txBusy, EN_Pin, masterVars, xBufferRX,
                    i8lastError, i8state, ModBusSphr, pc, u8exception,
                    txReturn, hostPc, reqFrame >>

Fc15Init ==
    /\ HandleInit(MB_MASTER, 0)
    /\ \E w \in Fc15Words : mem = [p \in {"data"} |-> Bank(<< w >>, 1)]
    /\ u16regsHR = "NULL"
    /\ u16regsRO = "NULL"
    /\ u16regsCoils = "NULL"
    /\ u16regsCoilsRO = "NULL"
    /\ u16regHR_size = 0
    /\ u16regCoils_size = 0
    /\ telegram = NoTelegram
    /\ QueueTelegram = << >>
    /\ origNotify = << << >> >>
    /\ xBufferRX = EmptyRing
    /\ pc = "queue"
    /\ notifyWoken = FALSE
    /\ xTimerT35 = FALSE
    /\ wire = << >>
    /\ \E start \in Fc15Starts, qty \in Fc15Quantities :
         env = [frames |-> 0, queries |-> 1, replies |-> 1, hostops |-> 0,
                deq |-> {}, heard |-> 0, bank |-> Bank(<< 0 >>, Fc15Bank),
                start |-> start, qty |-> qty, written |-> FALSE]

Fc15Next ==
    \/ ModbusQueryOf(Fc15Telegrams(env.start, env.qty))
    \/ Fc15Line
    \/ RxISR
    \/ vTimerCallbackT35
    \/ vTimerCallbackTimeout
    \/ TxCpltISR
    \/ MasterWorker

SpecCoils == Fc15Init /\ [][Fc15Next]_vars

(***************************************************************************)
(* SpecLate: a master on a half-duplex line where frames do not collide:   *)
(* a station starts to answer only after the master has transmitted, and   *)
(* the master starts to transmit only when no frame is in flight and the   *)
(* silence that ends the last frame has elapsed.  A frame may come while   *)
(* the worker waits for it or after the worker has reported the timeout of *)
(* its telegram.                                                           *)
(***************************************************************************)
LateQueries == 2
LateReplies == 2
LateBank == 2

\* the telegrams of the host: a read of one holding register and a write of
\* one, to station SlaveId, on a buffer of LateBank words
LateTelegrams(task) ==
    { [u8id |-> SlaveId, u8fct |-> fc, u16RegAdd |-> 0, u16CoilsNo |-> 1,
       u16reg |-> "data", u32CurrentTask |-> task] :
         fc \in {MB_FC_READ_REGISTERS, MB_FC_WRITE_REGISTER} }

\* the frames on the line: an exception response, and responses to a read of
\* holding registers with one register from SlaveId, with one register from
\* another station, and with two registers from SlaveId
LateFrames ==
    { WithCRC(<< SlaveId, 131, 2 >>),
      WithCRC(<< SlaveId, MB_FC_READ_REGISTERS, 2, 0, 42 >>),
      WithCRC(<< OtherId, MB_FC_READ_REGISTERS, 2, 0, 42 >>),
      WithCRC(<< SlaveId, MB_FC_READ_REGISTERS, 4, 0, 42, 0, 43 >>) }

LateLine ==
    /\ uModbusType = MB_MASTER
    /\ env.replies > 0
    /\ wire = << >>
    /\ txLine # << >>
    /\ ~txBusy /\ EN_Pin = "RX"
    /\ pc = "wait" \/ (pc = "queue" /\ i8lastError = ERR_TIME_OUT)
    /\ \E f \in LateFrames : wire' = f
    /\ env' = [env EXCEPT !.replies = @ - 1]
    /\ UNCHANGED << hwVars, bankVars, frameVars, countVars, notifyVars,
                    timerVars, txLine, txBusy, EN_Pin, masterVars, xBufferRX,
                    i8lastError, i8state, ModBusSphr, pc, u8exception,
                    txReturn, hostPc, reqFrame >>

LateInit ==
    /\ HandleInit(MB_MASTER, 0)
    /\ mem = [p \in {"data"} |-> Bank(<< 0 >>, LateBank)]
    /\ u16regsHR = "NULL"
    /\ u16regsRO = "NULL"
    /\ u16regsCoils = "NULL"
    /\ u16regsCoilsRO = "NULL"
    /\ u16regHR_size = 0
    /\ u16regCoils_size = 0
    /\ telegram = NoTelegram
    /\ QueueTelegram = << >>
    /\ origNotify = [k \in 1..LateQueries |-> << >>]
    /\ xBufferRX = EmptyRing
    /\ pc = "queue"
    /\ notifyWoken = FALSE
    /\ xTimerT35 = FALSE
    /\ wire = << >>
    /\ env = [frames |-> 0, queries |-> LateQueries, replies |-> LateReplies,
              hostops |-> 0, deq |-> {}, heard |-> 0]

LateNext ==
    \/ ModbusQueryOf(LateTelegrams(LateQueries - env.queries + 1))
    \/ LateLine
    \/ RxISR
    \/ vTimerCallbackT35
    \/ vTimerCallbackTimeout
    \/ TxCpltISR
    \/ MasterDequeue
    \/ SendQueryTake
    \/ SendQueryBuild
    \/ SendQueryGive
    \/ (wire = << >> /\ ~xTimerT35 /\ sendTxBufferStart)
    \/ sendTxBufferTransmit
    \/ sendTxBufferEnd
    \/ MasterWake
    \/ MasterParseTake
    \/ MasterParse
    \/ MasterParseGive

SpecLate == LateInit /\ [][LateNext]_vars

(***************************************************************************)
(* SpecCRC: sendTxBuffer on a frame body, and the CRC test of              *)
(* validateRequest and of validateAnswer on what a receiver running the    *)
(* same code finds in its frame buffer when the line has delivered the     *)
(* frame, as transmitted or with one byte replaced by another value.       *)
(* env.body is the body, env.got the frame received, env.req and env.ans   *)
(* what validateRequest and validateAnswer return for it.                  *)
(***************************************************************************)
MaxBody == 2

CrcBytes == {0, 1, 255}

RECURSIVE SeqsUpTo(_, _)
SeqsUpTo(S, n) ==
    IF n = 0 THEN {<< >>}
    ELSE LET shorter == SeqsUpTo(S, n - 1)
         IN  shorter \cup {Append(q, b) : q \in shorter, b \in S}

\* the bodies: all short ones over CrcBytes, a read request, the digits
\* "123456789" and the longest body the frame buffer of the model takes
CrcBodies ==
    (SeqsUpTo(CrcBytes, MaxBody) \ {<< >>})
    \cup {<< 1, 3, 0, 0, 0, 1 >>,
          << 49, 50, 51, 52, 53, 54, 55, 56, 57 >>,
          [i \in 1..(MAX_BUFFER - 2) |-> (17 * i) % 256]}

\* the frames that differ from f in exactly one byte
OneByteChanged(f) ==
    {[f EXCEPT ![i] = v] : i \in 1..Len(f), v \in 0..255} \ {f}

CrcInit ==
    /\ \E type \in {MB_SLAVE, MB_MASTER} : HandleInit(type, SlaveId)
    /\ SlaveBanks(1, 1)
    /\ xBufferRX = EmptyRing
    /\ notifyWoken = FALSE
    /\ xTimerT35 = FALSE
    /\ wire = << >>
    /\ pc = "tx"
    /\ \E body \in CrcBodies :
         env = [heard |-> 0, body |-> body, got |-> << >>, req |-> 0,
                ans |-> 0, loaded |-> FALSE]

\* the caller of sendTxBuffer has left the body in u8Buffer
CrcLoad ==
    /\ pc = "tx"
    /\ ~env.loaded
    /\ u8Buffer' = [i \in DOMAIN u8Buffer |->
                       IF i < Len(env.body) THEN env.body[i + 1] ELSE u8Buffer[i]]
    /\ u8BufferSize' = Len(env.body)
    /\ txReturn' = "sent"
    /\ env' = [env EXCEPT !.loaded = TRUE]
    /\ UNCHANGED << hwVars, bankVars, countVars, notifyVars, timerVars,
                    lineVars, masterVars, xBufferRX, i8lastError, i8state,
                    ModBusSphr, pc, u8exception, hostPc, reqFrame >>

\* the receiver drains the frame and runs the two validations on it
CrcReceive ==
    /\ pc = "sent"
    /\ env.got = << >>
    /\ \E f \in {txLine} \cup OneByteChanged(txLine) :
         LET rx == RemoteRx(f)
         IN  env' = [env EXCEPT
                       !.got = f,
                       !.req = validateRequest(rx.buffer, rx.ret).ret,
                       !.ans = validateAnswer(rx.buffer, rx.ret).ret]
    /\ UNCHANGED << hwVars, bankVars, frameVars, countVars, notifyVars,
                    timerVars, lineVars, masterVars, xBufferRX, i8lastError,
                    i8state, ModBusSphr, pc, u8exception, txReturn, hostPc,
                    reqFrame >>

CrcNext ==
    \/ CrcLoad
    \/ (env.loaded /\ sendTxBufferStart)
    \/ sendTxBufferTransmit
    \/ TxCpltISR
    \/ sendTxBufferEnd
    \/ CrcReceive

SpecCRC == CrcInit /\ [][CrcNext]_vars

(***************************************************************************)
(* Properties.                                                             *)
(***************************************************************************)
\* a frame whose last two bytes are the CRC of the bytes before them
GoodCRC(f) == Len(f) >= 3 /\ f = WithCRC(SubSeq(f, 1, Len(f) - 2))

\* the worker is building or sending an exception frame, or has just sent it
InExceptionReply == pc \in {"tx", "txgo", "txwait", "excDone"} /\ txReturn = "excDone"

\* C1: a slave whose drained frame fails the CRC check, or whose ring buffer
\* is found overflowed, stays silent: it builds no exception frame and does
\* not call sendTxBuffer for that frame.
C1_SilentOnBadCRC ==
    uModbusType = MB_SLAVE =>
        /\ (reqFrame # << >> /\ Len(reqFrame) >= 7 /\ reqFrame[1] = u8id
              /\ ~GoodCRC(reqFrame))
           => ~InExceptionReply
        /\ i8lastError = ERR_BUFF_OVERFLOW => pc \notin {"tx", "txgo", "txwait"}

\* C2: every telegram the master worker dequeues leads to exactly one
\* notification of its originator, after which the worker waits on the
\* telegram queue again; also for the telegrams SendQuery refuses.
C2_EveryTelegramNotified ==
    (uModbusType = MB_MASTER /\ pc = "sqTake")
        ~> (/\ pc = "queue"
            /\ telegram.u32CurrentTask \in DOMAIN origNotify
            /\ Len(origNotify[telegram.u32CurrentTask]) = 1)

\* C3: master transactions are strictly sequential: whenever the worker is
\* at the queue, inside SendQuery or transmitting, i8state is COM_IDLE, so
\* no telegram enters SendQuery or is sent while i8state is COM_WAITING.
C3_Sequential ==
    (uModbusType = MB_MASTER
        /\ pc \in {"queue", "sqTake", "sqBuild", "tx", "txgo", "txwait", "sqGive"})
    => i8state = COM_IDLE

\* a second telegram is inside SendQuery after an earlier one was transmitted
C3_Witness ==
    /\ uModbusType = MB_MASTER
    /\ pc = "sqBuild"
    /\ Cardinality(env.deq) >= 2
    /\ u16OutCnt >= 1
    /\ i8state = COM_IDLE

\* the worker wakes in COM_WAITING with the value of the response timeout
C4_Step ==
    (uModbusType = MB_MASTER /\ pc = "wait" /\ pc' # "wait"
        /\ i8state = COM_WAITING /\ ulNotifiedValue = ERR_TIME_OUT)
    => /\ origNotify' = [origNotify EXCEPT ![telegram.u32CurrentTask] =
                            Append(@, ERR_TIME_OUT)]
       /\ u16errCnt' = U16(u16errCnt + 1)
       /\ i8lastError' = ERR_TIME_OUT
       /\ i8state' = COM_IDLE
       /\ pc' = "queue"

\* C4: after the master has sent a query and the response timeout expires
\* with no byte received, the originator is notified with ERR_TIME_OUT,
\* u16errCnt grows by exactly one, i8lastError is ERR_TIME_OUT and i8state is
\* COM_IDLE again.
C4_Timeout == [][C4_Step]_vars

\* a query was sent, no byte ever arrived, and the timeout has been handled
C4_Witness ==
    /\ uModbusType = MB_MASTER
    /\ pc = "queue"
    /\ u16OutCnt = 1
    /\ u16InCnt = 0
    /\ xBufferRX.u8available = 0
    /\ env.heard = 0
    /\ env.replies > 0
    /\ origNotify[telegram.u32CurrentTask] = << ERR_TIME_OUT >>
    /\ u16errCnt = 1
    /\ i8lastError = ERR_TIME_OUT
    /\ i8state = COM_IDLE

\* C5: when the reply to a master query (the bytes received since the query
\* was sent) is a well-formed exception response (5 bytes on the wire, valid
\* CRC, function byte with bit 7 set), the originator is notified with
\* ERR_EXCEPTION and i8state is COM_IDLE again.
C5_ExceptionReply ==
    (uModbusType = MB_MASTER /\ pc = "queue"
        /\ Len(reqFrame) = 5 /\ GoodCRC(reqFrame) /\ env.heard = 5
        /\ reqFrame[1] = telegram.u8id /\ reqFrame[2] >= 128)
    => /\ origNotify[telegram.u32CurrentTask] = << ERR_EXCEPTION >>
       /\ i8state = COM_IDLE

\* C6: every access of the worker to a register bank (a slave handler,
\* SendQuery, the parser of the master) happens while the worker holds the
\* semaphore, and a host task that took the semaphore holds it until it gives
\* it back.
C6_BanksUnderSem ==
    /\ pc \in {"process", "sqBuild", "parse"} => ModBusSphr = "worker"
    /\ hostPc \in {"hold", "done"} => ModBusSphr = "host"

\* the master parses an answer into the caller's array while the host task
\* has a use of the array still to come
C6_Witness ==
    /\ pc = "parse"
    /\ ModBusSphr = "worker"
    /\ hostPc = "idle"
    /\ env.hostops > 0

\* C7: no telegram passed to ModbusQuery is dropped: each one is in the
\* queue or has been dequeued by the worker.
C7_NoTelegramDropped ==
    uModbusType = MB_MASTER =>
        \A k \in 1..(Len(origNotify) - env.queries) :
            \/ k \in env.deq
            \/ \E i \in 1..Len(QueueTelegram) :
                 QueueTelegram[i].u32CurrentTask = k

\* C8: for a request addressed to the slave that validateRequest refuses
\* with an exception code, whatever its function byte, the frame sent is the
\* slave's id, the function byte OR-ed with 0x80, the exception code and
\* the CRC.
C8_ExceptionFrame ==
    (uModbusType = MB_SLAVE /\ pc = "txwait" /\ txReturn = "excDone"
        /\ u8exception \in {EXC_FUNC_CODE, EXC_ADDR_RANGE, EXC_REGS_QUANT})
    => txLine = WithCRC(<< u8id, BitOr(reqFrame[2], 128, 8), u8exception >>)

\* C9: a request addressed to the slave with a valid CRC and an unsupported
\* function code (here: below 0x80) is answered, whatever its length, with
\* the exception frame id, function | 0x80, 1, CRC.
C9_IllegalFunction ==
    (uModbusType = MB_SLAVE /\ pc = "top"
        /\ Len(reqFrame) >= 4 /\ GoodCRC(reqFrame) /\ reqFrame[1] = u8id
        /\ ~isSupported(reqFrame[2]) /\ reqFrame[2] < 128)
    => txLine = WithCRC(<< u8id, reqFrame[2] + 128, EXC_FUNC_CODE >>)

\* a request for registers (FC 3, 6, 16) whose start address, or whose start
\* plus quantity, is one past the size of the holding bank
OnePastHolding(f) ==
    LET fc  == f[2]
        add == word(f[3], f[4])
        nb  == word(f[5], f[6])
    IN  \/ fc = MB_FC_WRITE_REGISTER /\ add = u16regHR_size
        \/ /\ fc \in {MB_FC_READ_REGISTERS, MB_FC_WRITE_MULTIPLE_REGISTERS}
           /\ nb >= 1
           /\ add = u16regHR_size \/ add + nb = u16regHR_size + 1

\* C10: a request with a valid CRC whose start address or start+quantity is
\* one past the size of the bank it references is refused with
\* EXC_ADDR_RANGE; FC 6 is accepted only when its address is below the size
\* of the holding bank.  (Stated for the holding bank, whose size is counted
\* in registers.)
C10_OnePastRejected ==
    (uModbusType = MB_SLAVE /\ reqFrame # << >> /\ Len(reqFrame) >= 8
        /\ GoodCRC(reqFrame) /\ reqFrame[1] = u8id /\ OnePastHolding(reqFrame))
    => /\ pc \notin {"takeSem", "process", "giveSem"}
       /\ pc \in {"tx", "txgo", "txwait", "excDone"}
            => (txReturn = "excDone" /\ u8exception = EXC_ADDR_RANGE)

\* the request drained last is a well-formed 8-byte request of function fc,
\* addressed to this slave, and the worker has decided on it
Decided(fc) ==
    /\ uModbusType = MB_SLAVE
    /\ Len(reqFrame) = 8 /\ GoodCRC(reqFrame) /\ reqFrame[1] = u8id
    /\ reqFrame[2] = fc
    /\ pc \in {"takeSem", "process", "tx", "txgo", "txwait", "giveSem", "excDone"}

\* the worker has accepted the request: it is on its way through the handler
Accepted ==
    \/ pc \in {"takeSem", "process", "giveSem"}
    \/ pc \in {"tx", "txgo", "txwait"} /\ txReturn = "giveSem"

\* the worker has refused the request with the exception code exc
Refused(exc) ==
    /\ pc \in {"tx", "txgo", "txwait", "excDone"}
    /\ txReturn = "excDone"
    /\ u8exception = exc

\* C11: an FC 5 request to a slave with a coil bank is accepted exactly when
\* ceil((start+1)/16) is at most u16regCoils_size, and refused with
\* EXC_ADDR_RANGE otherwise.
C11_FC5Range ==
    (Decided(MB_FC_WRITE_COIL) /\ u16regsCoils # "NULL") =>
        LET start == word(reqFrame[3], reqFrame[4])
        IN  IF (start \div 16) + 1 <= u16regCoils_size
            THEN Accepted
            ELSE Refused(EXC_ADDR_RANGE)

\* the number of words of the input-register bank the host has bound
InputRegsSize ==
    IF u16regsRO \in DOMAIN mem THEN Cardinality(DOMAIN mem[u16regsRO]) ELSE 0

\* C12: an FC 4 request to a slave with an input-register bank, whose start
\* + quantity exceeds the size of that bank, is refused with EXC_ADDR_RANGE,
\* whatever the size of the holding bank, and the handler of FC 4 reads no
\* word outside the input-register bank.
C12_FC4InputRange ==
    (Decided(MB_FC_READ_INPUT_REGISTER) /\ u16regsRO # "NULL") =>
        /\ word(reqFrame[3], reqFrame[4]) + word(reqFrame[5], reqFrame[6])
              > InputRegsSize
           => Refused(EXC_ADDR_RANGE)
        /\ ~oob

\* the bank the function code fc works on is one the host has not bound
AbsentBank(fc) ==
    \/ fc \in {MB_FC_READ_COILS, MB_FC_WRITE_COIL, MB_FC_WRITE_MULTIPLE_COILS}
          /\ u16regsCoils = "NULL"
    \/ fc = MB_FC_READ_DISCRETE_INPUT /\ u16regsCoilsRO = "NULL"
    \/ fc = MB_FC_READ_INPUT_REGISTER /\ u16regsRO = "NULL"

\* C13: a request with a valid CRC, addressed to the slave, whose function
\* code works on a bank the host has not bound is refused with
\* EXC_ADDR_RANGE; the handler is not run for it.  (Stated for the requests
\* that name at least one coil or register.)
C13_AbsentBank ==
    (/\ uModbusType = MB_SLAVE
     /\ Len(reqFrame) >= 8 /\ GoodCRC(reqFrame) /\ reqFrame[1] = u8id
     /\ AbsentBank(reqFrame[2])
     /\ reqFrame[2] = MB_FC_WRITE_COIL \/ word(reqFrame[5], reqFrame[6]) >= 1
     /\ pc \in {"takeSem", "process", "tx", "txgo", "txwait", "giveSem", "excDone"})
    => Refused(EXC_ADDR_RANGE)

\* C14: in the response to an accepted FC 2 request, bit j of the data is
\* bit (start+j) mod 16 of word (start+j)/16 of the discrete-input bank, for
\* every j below the quantity, whatever the coil bank holds.
C14_FC2FromDiscreteInputs ==
    (/\ Decided(MB_FC_READ_DISCRETE_INPUT)
     /\ pc = "txwait" /\ txReturn = "giveSem"
     /\ u16regsCoilsRO \in DOMAIN mem)
    => LET start == word(reqFrame[3], reqFrame[4])
           qty   == word(reqFrame[5], reqFrame[6])
           bank  == mem[u16regsCoilsRO]
       IN  \A j \in 0..(qty - 1) :
               ((start + j) \div 16 \in DOMAIN bank /\ 4 + (j \div 8) <= Len(txLine))
               => bitRead(txLine[4 + (j \div 8)], j % 8)
                    = bitRead(bank[(start + j) \div 16], (start + j) % 16)

\* the slave worker wakes and leaves the frame with an error: it sets
\* i8lastError or sends an exception frame
SlaveErrorStep ==
    /\ uModbusType = MB_SLAVE
    /\ pc = "wait" /\ pc' # "wait"
    /\ i8lastError' # 0 \/ (pc' = "tx" /\ txReturn' = "excDone")

C15_Step ==
    /\ SlaveErrorStep => u16errCnt' = U16(u16errCnt + 1)
    /\ (uModbusType = MB_SLAVE /\ pc = "top" /\ pc' = "wait")
          => i8lastError' = i8lastError

\* C15: every error outcome of the slave loop adds one to u16errCnt, and
\* the error code written to i8lastError is still there when the worker
\* blocks for the next frame.
C15_ErrorsCounted == [][C15_Step]_vars

\* the bytes the ring holds, oldest first
RingSeq(rb) ==
    [i \in 1..rb.u8available |-> rb.uxBuffer[(rb.u8start + i - 1) % MAX_BUFFER]]

RingInRange ==
    /\ xBufferRX.u8available \in 0..MAX_BUFFER
    /\ xBufferRX.u8start \in 0..(MAX_BUFFER - 1)
    /\ xBufferRX.u8end \in 0..(MAX_BUFFER - 1)

\* a call of RingAdd: on a full ring it sets overflow, advances u8start by
\* one and keeps u8available, and the ring holds its former bytes without
\* the oldest, followed by the new byte; otherwise the byte is appended
C16_Step ==
    env'.last = "RingAdd" =>
        IF xBufferRX.u8available = MAX_BUFFER
        THEN /\ xBufferRX'.overflow
             /\ xBufferRX'.u8start = (xBufferRX.u8start + 1) % MAX_BUFFER
             /\ xBufferRX'.u8available = MAX_BUFFER
             /\ RingSeq(xBufferRX') = Append(Tail(RingSeq(xBufferRX)), env'.arg)
        ELSE RingSeq(xBufferRX') = Append(RingSeq(xBufferRX), env'.arg)

\* C16: after any sequence of calls of the ring functions u8available is at
\* most MAX_BUFFER and u8start, u8end are inside the array; a RingAdd on a
\* full ring sets overflow, advances u8start by one and leaves u8available
\* unchanged, so that the ring holds the newest MAX_BUFFER bytes in arrival
\* order.
C16_RingPush == []RingInRange /\ [][C16_Step]_vars

\* a byte has been pushed onto a full ring that had wrapped around before
C16_Witness ==
    /\ env.last = "RingAdd"
    /\ env.pushed = MAX_BUFFER + 2
    /\ xBufferRX.overflow
    /\ xBufferRX.u8available = MAX_BUFFER
    /\ xBufferRX.u8start = 2
    /\ RingSeq(xBufferRX) = [i \in 1..MAX_BUFFER |-> RingByte(i + 1)]

\* a drain that returned bytes, but fewer than the ring held
PartialDrain ==
    /\ env'.last \in {"RingGetNBytes", "RingGetAllBytes"}
    /\ env'.ret > 0
    /\ env'.ret < xBufferRX.u8available

C17_Step ==
    /\ (env'.last = "RingAdd" /\ xBufferRX.u8available = MAX_BUFFER)
          => xBufferRX'.overflow
    /\ (xBufferRX.overflow /\ (env'.last = "RingAdd" \/ PartialDrain))
          => xBufferRX'.overflow

\* C17: a push onto a full ring sets the overflow flag, and a set flag stays
\* set through further pushes and through every drain that does not empty
\* the ring.
C17_OverflowSticky == [][C17_Step]_vars

C18_Step ==
    (/\ env'.last = "RingGetNBytes"
     /\ env'.arg > 0 /\ env'.arg <= xBufferRX.u8available)
    => /\ env'.ret = env'.arg
       /\ BufSeq(u8Buffer', env'.ret) = SubSeq(RingSeq(xBufferRX), 1, env'.arg)
       /\ xBufferRX'.u8available = xBufferRX.u8available - env'.arg
       /\ RingSeq(xBufferRX') = SubSeq(RingSeq(xBufferRX), env'.arg + 1,
                                       xBufferRX.u8available)

\* C18: a drain of N bytes, 0 < N <= u8available, returns the N oldest bytes
\* in the order they were pushed and takes exactly N off u8available; the
\* bytes not drained stay in the ring, in order, for the next drain.
C18_DrainN == [][C18_Step]_vars

\* the master worker has parsed the response of the remote slave to the
\* query it transmitted and is back at the queue
TripDone ==
    /\ uModbusType = MB_MASTER
    /\ pc = "queue"
    /\ telegram.u8fct = MB_FC_READ_REGISTERS
    /\ txLine # << >>
    /\ RemoteAccepts(txLine, env.bank)
    /\ reqFrame = RemoteReply(txLine, env.bank)

\* C19: when the master has received and parsed the response the slave's
\* process_FC3 built to an accepted FC 3 query for qty registers from start,
\* the response carries the byte count 2*qty in 2*qty + 5 bytes, word i of
\* the caller's array is word start+i of the slave's holding bank for every
\* i < qty, and the originator has been notified with ERR_OK_QUERY.
C19_RoundTrip ==
    TripDone =>
        /\ reqFrame[3] = 2 * telegram.u16CoilsNo
        /\ Len(reqFrame) = 2 * telegram.u16CoilsNo + 5
        /\ \A i \in 0..(telegram.u16CoilsNo - 1) :
               mem[telegram.u16reg][i] = env.bank[telegram.u16RegAdd + i]
        /\ origNotify[telegram.u32CurrentTask] = << ERR_OK_QUERY >>

\* two registers with different contents, from register 1 on, have made the
\* round trip
C19_Witness ==
    /\ TripDone
    /\ telegram.u16RegAdd = 1
    /\ telegram.u16CoilsNo = 2
    /\ env.bank[1] = 4660 /\ env.bank[2] = 65280
    /\ mem["data"][0] = 4660 /\ mem["data"][1] = 65280

\* the handler of an FC 5 request with the value FF 00 or 00 00 runs, on a
\* slave that has a coil bank
FC5Runs ==
    /\ uModbusType = MB_SLAVE
    /\ u16regsCoils # "NULL"
    /\ pc = "process" /\ pc' = "tx"
    /\ u8Buffer[FUNC] = MB_FC_WRITE_COIL
    /\ word(u8Buffer[NB_HI], u8Buffer[NB_LO]) \in {0, 65280}

\* the arrays after the step are those before it, but for bit b of word r
\* of the array p, which is v
OnlyBitWritten(p, r, b, v) ==
    /\ p \in DOMAIN mem /\ r \in DOMAIN mem[p]
    /\ DOMAIN mem' = DOMAIN mem
    /\ \A q \in DOMAIN mem :
          /\ DOMAIN mem'[q] = DOMAIN mem[q]
          /\ \A k \in DOMAIN mem[q] :
                IF q = p /\ k = r
                THEN \A j \in 0..15 :
                         bitRead(mem'[q][k], j)
                           = IF j = b THEN v ELSE bitRead(mem[q][k], j)
                ELSE mem'[q][k] = mem[q][k]
    /\ oob' = oob

C20_Step ==
    /\ FC5Runs =>
          LET start == word(u8Buffer[ADD_HI], u8Buffer[ADD_LO])
          IN  OnlyBitWritten(u16regsCoils, start \div 16, start % 16,
                             IF u8Buffer[NB_HI] = 255 THEN 1 ELSE 0)
    /\ (/\ uModbusType = MB_SLAVE /\ pc = "txgo" /\ pc' = "txwait"
        /\ txReturn = "giveSem" /\ reqFrame[2] = MB_FC_WRITE_COIL)
       => txLine' = reqFrame

\* C20: the handler of every accepted FC 5 request with the value FF 00 or
\* 00 00 sets bit start mod 16 of word start/16 of the coil bank to 1 or 0,
\* changes no other bit of any bank and touches nothing outside the banks,
\* and the response transmitted is the request, byte for byte.
C20_FC5Effect == [][C20_Step]_vars

\* the slave worker wakes on a frame of at least 7 bytes that carries
\* another id than its own
ForeignFrameStep ==
    /\ uModbusType = MB_SLAVE
    /\ pc = "wait" /\ pc' # "wait"
    /\ Len(reqFrame') >= 7
    /\ reqFrame'[1] # u8id

C21_Step ==
    ForeignFrameStep =>
        /\ pc' = "top"
        /\ txLine' = txLine /\ txBusy' = txBusy /\ EN_Pin' = EN_Pin
        /\ mem' = mem /\ oob' = oob
        /\ u16errCnt' = u16errCnt
        /\ u16OutCnt' = u16OutCnt
        /\ i8lastError' = 0

\* C21: a frame of at least 7 bytes whose first byte is not the slave's id
\* (0 included) is skipped in silence, whatever follows the first byte: the
\* worker goes back to the head of its loop, nothing is transmitted, no bank
\* changes, u16errCnt and u16OutCnt keep their values and i8lastError is 0.
C21_ForeignSkipped == [][C21_Step]_vars

\* a frame for station 0 with a wrong CRC has been skipped
C21_Witness ==
    /\ uModbusType = MB_SLAVE
    /\ pc = "top"
    /\ Len(reqFrame) >= 7 /\ reqFrame[1] = 0 /\ ~GoodCRC(reqFrame)
    /\ u16InCnt = 1
    /\ u16errCnt = 0 /\ u16OutCnt = 0 /\ i8lastError = 0
    /\ txLine = << >>

\* CRC-16/MODBUS as the catalogue of CRCs defines it: width 16, polynomial
\* 0x8005, initial value 0xFFFF, input and output reflected, no final XOR
RECURSIVE Reflect(_, _)
Reflect(v, n) ==
    IF n = 0 THEN 0 ELSE (v % 2) * Pow2(n - 1) + Reflect(v \div 2, n - 1)

RefCrcShift(r) ==
    IF r >= 32768 THEN BitXor((2 * r) % 65536, 32773) ELSE (2 * r) % 65536

RefCrcBits[r \in Nat, n \in Nat] ==
    IF n = 0 THEN r ELSE RefCrcBits[RefCrcShift(r), n - 1]

RefCrcByte[r \in Nat, byte \in Nat] ==
    RefCrcBits[BitXor(r, 256 * Reflect(byte, 8)), 8]

RefCrcReg(body) ==
    LET reg[i \in 0..Len(body)] ==
            IF i = 0 THEN 65535 ELSE RefCrcByte[reg[i - 1], body[i]]
    IN  reg[Len(body)]

RefCRC(body) == Reflect(RefCrcReg(body), 16)

\* C22: the frame sendTxBuffer transmits is the body followed by the low
\* byte and then the high byte of the reference CRC-16/MODBUS of the body;
\* received as transmitted it passes the CRC test of validateRequest and of
\* validateAnswer, and received with any one byte changed it makes both
\* return ERR_BAD_CRC.
C22_CrcRoundTrip ==
    /\ txLine # << >> =>
          txLine = env.body \o << RefCRC(env.body) % 256,
                                  RefCRC(env.body) \div 256 >>
    /\ (pc = "sent" /\ env.got = txLine) =>
          /\ env.req # U8(ERR_BAD_CRC)
          /\ env.ans # U8(ERR_BAD_CRC)
    /\ (pc = "sent" /\ env.got # << >> /\ env.got # txLine) =>
          /\ env.req = U8(ERR_BAD_CRC)
          /\ env.ans = U8(ERR_BAD_CRC)

\* the read request 01 03 00 00 00 01 went out with the CRC bytes 84 0A and
\* came in with its last byte changed
C22_Witness ==
    /\ pc = "sent"
    /\ env.body = << 1, 3, 0, 0, 0, 1 >>
    /\ txLine = << 1, 3, 0, 0, 0, 1, 132, 10 >>
    /\ env.got = << 1, 3, 0, 0, 0, 1, 132, 11 >>
    /\ env.req = U8(ERR_BAD_CRC) /\ env.ans = U8(ERR_BAD_CRC)

\* the digits "123456789" went out with the CRC 0x4B37 and came in unchanged
C22_CheckValue ==
    /\ pc = "sent"
    /\ env.body = << 49, 50, 51, 52, 53, 54, 55, 56, 57 >>
    /\ txLine = env.body \o << 55, 75 >>
    /\ env.got = txLine
    /\ env.req # U8(ERR_BAD_CRC)

C23_Step ==
    \* the transceiver is switched to transmission before the UART is started
    /\ (EN_Pin = "RX" /\ EN_Pin' = "TX") => (~txBusy /\ ~txBusy')
    /\ (~txBusy /\ txBusy') => (EN_Pin = "TX" /\ EN_Pin' = "TX")
    \* and back to reception only when the TC bit has been found set
    /\ (EN_Pin = "TX" /\ EN_Pin' = "RX") => (pc = "txwait" /\ ~txBusy)
    \* the response timeout is started at that point, by a master only
    /\ (xTimerTimeout' /\ (~xTimerTimeout \/ (pc = "txwait" /\ pc' # "txwait")))
          => /\ uModbusType = MB_MASTER
             /\ pc = "txwait" /\ ~txBusy /\ EN_Pin' = "RX"
    /\ (uModbusType = MB_MASTER /\ pc = "txwait" /\ pc' # "txwait")
          => xTimerTimeout'
    \* the return
    /\ (pc = "txwait" /\ pc' # "txwait")
          => /\ pc' = txReturn
             /\ u8BufferSize' = 0
             /\ u16OutCnt' = u16OutCnt + 1

\* C23: in every run of sendTxBuffer the direction pin is in the TX state
\* before the UART transmission is started and goes back to the RX state
\* only after the TC bit has been found set; a master starts the response
\* timeout only then; on return u8BufferSize is 0 and u16OutCnt is one more
\* than before.
C23_SendOrder == [][C23_Step]_vars

\* a master has returned from sendTxBuffer into SendQuery
C23_Witness ==
    /\ uModbusType = MB_MASTER
    /\ pc = "sqGive"
    /\ txLine # << >> /\ ~txBusy /\ EN_Pin = "RX"
    /\ xTimerTimeout
    /\ u8BufferSize = 0 /\ u16OutCnt = 1

\* the request drained last is addressed to this slave, has a valid CRC and
\* one of the functions fcs, every bank is bound, and the worker has accepted
\* the request and run the handler
HandlerRan(fcs) ==
    /\ uModbusType = MB_SLAVE
    /\ u16regsCoils # "NULL" /\ u16regsCoilsRO # "NULL" /\ u16regsRO # "NULL"
    /\ Len(reqFrame) >= 8 /\ GoodCRC(reqFrame) /\ reqFrame[1] = u8id
    /\ reqFrame[2] \in fcs
    /\ pc \in {"tx", "txgo", "txwait", "giveSem"} /\ txReturn = "giveSem"

\* C24: for every request validateRequest accepts, the handler of FC 1,
\* FC 6 or FC 15 reads and writes only words of the bank whose index is
\* below the size of the bank.
C24_BankIndexSafe ==
    HandlerRan({MB_FC_READ_COILS, MB_FC_WRITE_REGISTER,
                MB_FC_WRITE_MULTIPLE_COILS}) => ~oob

C25_Step ==
    (uModbusType = MB_MASTER /\ pc = "wait" /\ pc' # "wait"
        /\ ulNotifiedValue = 0)
    => Len(reqFrame') <= env.heard

\* C25: the bytes the master worker drains and validates as the reply to a
\* telegram were all received after that telegram was transmitted; bytes of
\* a late reply to the telegram before, left in the ring buffer by the
\* timeout path, are not among them.
C25_ReplyAfterQuery == [][C25_Step]_vars

\* the worker has validated a reply and moves its payload to the buffer of
\* the caller, or tells the originator that the query succeeded
ReplyTaken ==
    /\ uModbusType = MB_MASTER
    /\ \/ pc = "parse" /\ mem' # mem
       \/ /\ pc = "parseGive"
          /\ origNotify'[telegram.u32CurrentTask]
               = Append(origNotify[telegram.u32CurrentTask], ERR_OK_QUERY)

C26_Step ==
    ReplyTaken =>
        /\ u8Buffer[ID] = telegram.u8id
        /\ u8Buffer[FUNC] = telegram.u8fct

\* C26: the master copies payload into the caller's buffer and notifies
\* ERR_OK_QUERY only for a reply whose first byte is the station id of the
\* telegram and whose function byte is the function of the telegram.
C26_ReplyMatches == [][C26_Step]_vars

\* the words a read telegram asks for
AskedWords ==
    IF telegram.u8fct \in {MB_FC_READ_REGISTERS, MB_FC_READ_INPUT_REGISTER}
    THEN telegram.u16CoilsNo
    ELSE (telegram.u16CoilsNo + 15) \div 16

C27_Step ==
    (/\ uModbusType = MB_MASTER
     /\ pc = "parse" /\ pc' = "parseGive"
     /\ telegram.u8fct \in {MB_FC_READ_COILS, MB_FC_READ_DISCRETE_INPUT,
                             MB_FC_READ_REGISTERS, MB_FC_READ_INPUT_REGISTER}
     /\ u8Buffer[ID] = telegram.u8id
     /\ u8Buffer[FUNC] = telegram.u8fct)
    => /\ oob' = oob
       /\ \A i \in DOMAIN mem[telegram.u16reg] :
             i >= AskedWords
                => mem'[telegram.u16reg][i] = mem[telegram.u16reg][i]

\* C27: parsing the reply to a read telegram (FC 1, 2, 3, 4), the master
\* writes at most the words the telegram asked for into the caller's
\* buffer, whatever byte count the frame carries and whatever its length.
C27_ReplyBounded == [][C27_Step]_vars

\* the places of the worker between a take of the semaphore and its give
WorkerHolds ==
    \/ pc \in {"process", "giveSem", "sqBuild", "sqGive", "parse", "parseGive"}
    \/ pc \in {"tx", "txgo", "txwait"} /\ txReturn \in {"giveSem", "sqGive"}

\* the worker executes xSemaphoreGive
WorkerGives ==
    \/ pc = "giveSem" /\ pc' = "top"
    \/ pc = "sqGive" /\ pc' = "wait"
    \/ pc = "sqBuild" /\ pc' = "wait"
    \/ pc = "parseGive" /\ pc' = "queue"

C28_Step ==
    \* the worker has the semaphore exactly between a take and the give
    \* that follows it; it has none where it blocks for a telegram or a frame
    /\ (ModBusSphr = "worker") <=> WorkerHolds
    /\ pc \in {"top", "wait", "queue"} => ModBusSphr # "worker"
    \* a take finds the semaphore free
    /\ (ModBusSphr # ModBusSphr' /\ ModBusSphr' # "free") => ModBusSphr = "free"
    /\ (ModBusSphr # "worker" /\ ModBusSphr' = "worker")
          => (pc \in {"takeSem", "sqTake", "parseTake"} /\ pc' # pc)
    \* a give of the worker releases what the worker holds
    /\ WorkerGives => (ModBusSphr = "worker" /\ ModBusSphr' = "free")
    /\ (ModBusSphr = "worker" /\ ModBusSphr' # "worker") => WorkerGives

\* C28: the semaphore is never held twice; every take of the worker (slave
\* handler, SendQuery on the refusal and on the success path, parsing of a
\* reply) is followed by exactly one give before the worker blocks again on
\* its queue or for a frame, and the worker gives only what it holds.
C28_SemDiscipline == [][C28_Step]_vars

\* a master has parsed a reply, given the semaphore back and reported
\* success, and the host task has taken the semaphore after it
C28_Witness ==
    /\ uModbusType = MB_MASTER
    /\ pc = "queue"
    /\ ModBusSphr = "host"
    /\ \E k \in DOMAIN origNotify :
          origNotify[k] # << >>
             /\ origNotify[k][Len(origNotify[k])] = ERR_OK_QUERY

\* C29: after a master has sent an FC 15 telegram built by SendQuery from
\* the caller's buffer and the slave has handled it with process_FC15, coil
\* start+k of the slave (bit (start+k) mod 16 of word (start+k)/16 of its
\* coil bank) is bit k mod 16 of word k/16 of the caller's buffer, for every
\* k below the quantity.
C29_CoilsArrive ==
    (uModbusType = MB_MASTER /\ "written" \in DOMAIN env /\ env.written) =>
        \A k \in 0..(env.qty - 1) :
            bitRead(env.bank[(env.start + k) \div 16], (env.start + k) % 16)
              = bitRead(mem["data"][k \div 16], k % 16)

====
